---- MODULE Spec2Model ----
(***************************************************************************)
(* Model of the TS_STL synchronization core (ts_stl_base.hpp) and of the   *)
(* vector adapter (ts_vector.hpp) that brackets std::vector operations     *)
(* with guards obtained from the core.                                     *)
(*                                                                         *)
(* Two families of behaviours are described:                               *)
(*  - threads calling protected operations of one shared container        *)
(*    (Spec, SpecPush);                                                    *)
(*  - one thread constructing, moving and destroying UnifiedLockGuard      *)
(*    objects over a few lock primitives (SpecGuard, SpecChain).           *)
(***************************************************************************)
EXTENDS Integers, Sequences, FiniteSets, TLC

\* ------------------------------------------------------------------ bounds
NumThreads == 2
MaxOps == 2
MaxCalls == 2
MaxPos == 0
NumLocks == 2
NumSlots == 2
MaxConstruct == 2
MaxMoves == 2
BatchLen == 2

Threads == 1..NumThreads
Locks == 1..NumLocks
Slots == 1..NumSlots

\* ---------------------------------------------------------------- policies
\* enum class LockPolicy
LockPolicy == {"Mutex", "SpinLock", "LockFree", "ReadWrite"}

\* the lock primitive kinds a guard can hold
Kinds == {"mutex", "spin", "rw", "rd"}
Prims == Kinds \X Locks

VARIABLES
    container,      \* the class template the shared container instantiates
    policy,         \* template parameter Policy / LockGuard::policy_
    mutex_,         \* [Locks -> BOOLEAN]  std::mutex locked
    flag_,          \* [Locks -> BOOLEAN]  SpinLock::flag_
    shared_mutex_,  \* [Locks -> [writer, readers]]  std::shared_mutex
    acquired,       \* [Prims -> Nat]  number of lock()/lock_shared() calls that returned
    released,       \* [Prims -> Nat]  number of unlock()/unlock_shared() calls
    dtor_resets,    \* does ~unique_lock leave owns == false behind (build dependent)
    data_,          \* vector::data_
    pc,             \* [Threads -> position in the current operation]
    cur,            \* [Threads -> the operation being executed]
    guard,          \* [Threads -> the local `guard` of the operation]
    snap,           \* [Threads -> what the operation read from data_]
    result,         \* [Threads -> outcome of the last finished operation]
    ops,            \* [Threads -> number of operations started]
    step,           \* [Threads -> raw operations done inside the current lock scope]
    g,              \* [Slots -> guard object or Dead]
    built,          \* number of guards constructed so far
    moves           \* number of moves between distinct guards so far

lockvars == <<mutex_, flag_, shared_mutex_, acquired, released>>
threadvars == <<data_, pc, cur, guard, snap, result, ops, step>>
guardvars == <<g, built, moves>>
vars == <<container, policy, mutex_, flag_, shared_mutex_, acquired, released, dtor_resets,
          data_, pc, cur, guard, snap, result, ops, step, g, built, moves>>

\* ------------------------------------------------------- lock primitives
\* The lock state as one value, so that several primitive operations can be
\* composed inside one step.
LS == [mutex_ |-> mutex_, flag_ |-> flag_, shared_mutex_ |-> shared_mutex_,
       acquired |-> acquired, released |-> released]

SetLS(ls) ==
    /\ mutex_' = ls.mutex_
    /\ flag_' = ls.flag_
    /\ shared_mutex_' = ls.shared_mutex_
    /\ acquired' = ls.acquired
    /\ released' = ls.released

\* std::mutex::lock returns only when the mutex is free
MutexCanLock(ls, l) == ~ls.mutex_[l]

MutexLock(ls, l) ==
    [ls EXCEPT !.mutex_[l] = TRUE, !.acquired[<<"mutex", l>>] = @ + 1]

MutexUnlock(ls, l) ==
    [ls EXCEPT !.mutex_[l] = FALSE, !.released[<<"mutex", l>>] = @ + 1]

\* SpinLock::lock leaves its loop when test_and_set finds the flag clear
\* variant: lock() returns without testing the flag
SpinLock_CanLockMut(ls, l) == TRUE

SpinLock_CanLock(ls, l) == ~ls.flag_[l]

SpinLock_lock(ls, l) ==
    [ls EXCEPT !.flag_[l] = TRUE, !.acquired[<<"spin", l>>] = @ + 1]

SpinLock_unlock(ls, l) ==
    [ls EXCEPT !.flag_[l] = FALSE, !.released[<<"spin", l>>] = @ + 1]

\* SpinLock::try_lock, variant: returns the old value of the flag
SpinLock_try_lock_Mut(ls, l) ==
    [ret |-> ls.flag_[l], ls |-> [ls EXCEPT !.flag_[l] = TRUE]]

\* SpinLock::try_lock: one test_and_set; the flag is set afterwards whatever
\* it was, and the call returns the negation of the old value
SpinLock_try_lock(ls, l) ==
    [ret |-> ~ls.flag_[l], ls |-> [ls EXCEPT !.flag_[l] = TRUE]]

\* std::shared_mutex::lock: no writer and no reader
SharedCanLock(ls, l) ==
    ~ls.shared_mutex_[l].writer /\ ls.shared_mutex_[l].readers = 0

SharedLock(ls, l) ==
    [ls EXCEPT !.shared_mutex_[l].writer = TRUE, !.acquired[<<"rw", l>>] = @ + 1]

SharedUnlock(ls, l) ==
    [ls EXCEPT !.shared_mutex_[l].writer = FALSE, !.released[<<"rw", l>>] = @ + 1]

\* std::shared_mutex::lock_shared: no writer
SharedCanLockShared(ls, l) == ~ls.shared_mutex_[l].writer

SharedLockShared(ls, l) ==
    [ls EXCEPT !.shared_mutex_[l].readers = @ + 1, !.acquired[<<"rd", l>>] = @ + 1]

SharedUnlockShared(ls, l) ==
    [ls EXCEPT !.shared_mutex_[l].readers = IF @ > 0 THEN @ - 1 ELSE 0,
               !.released[<<"rd", l>>] = @ + 1]

\* ------------------------------------------------------------ guard objects
\* std::unique_lock / std::shared_lock: the device (0 is nullptr) and owns
NullRef == [dev |-> 0, owns |-> FALSE]
Owning(l) == [dev |-> l, owns |-> TRUE]

\* cls: "unified" is UnifiedLockGuard, "unique_rw" a bare
\* std::unique_lock<std::shared_mutex>, "shared" a std::shared_lock
NoGuard == [cls |-> "none", lock_type_ |-> -1, spinlock_ |-> 0,
            mutex_lock_ |-> NullRef, rw_lock_ |-> NullRef, shared_ |-> NullRef]

\* UnifiedLockGuard(std::unique_lock<std::mutex>&&)
UnifiedFromMutex(l) ==
    [NoGuard EXCEPT !.cls = "unified", !.lock_type_ = 0, !.mutex_lock_ = Owning(l)]

\* UnifiedLockGuard(SpinLock&)
UnifiedFromSpin(l) ==
    [NoGuard EXCEPT !.cls = "unified", !.lock_type_ = 1, !.spinlock_ = l]

\* UnifiedLockGuard(NullLockGuard&&)
UnifiedFromNull ==
    [NoGuard EXCEPT !.cls = "unified", !.lock_type_ = 3]

\* UnifiedLockGuard(std::unique_lock<std::shared_mutex>&&)
UnifiedFromRW(l) ==
    [NoGuard EXCEPT !.cls = "unified", !.lock_type_ = 2, !.rw_lock_ = Owning(l)]

UniqueRW(l) == [NoGuard EXCEPT !.cls = "unique_rw", !.rw_lock_ = Owning(l)]

SharedRW(l) == [NoGuard EXCEPT !.cls = "shared", !.shared_ = Owning(l)]

\* ~unique_lock / ~shared_lock: unlock the device when owned
UniqueLockDtor(ls, kind, ul) ==
    IF ~ul.owns THEN ls
    ELSE IF kind = "mutex" THEN MutexUnlock(ls, ul.dev)
    ELSE IF kind = "rw" THEN SharedUnlock(ls, ul.dev)
    ELSE SharedUnlockShared(ls, ul.dev)

\* the body of ~UnifiedLockGuard
DtorBody(ls, gd) ==
    IF gd.lock_type_ = 1 /\ gd.spinlock_ # 0
    THEN SpinLock_unlock(ls, gd.spinlock_)
    ELSE ls

\* variant: the destructor releases nothing
GuardDtorMut(ls, gd) == ls

\* ~UnifiedLockGuard: the body, then the members in reverse order of
\* declaration; also the destructors of the two bare standard guards
GuardDtor(ls, gd) ==
    UniqueLockDtor(
        UniqueLockDtor(
            UniqueLockDtor(DtorBody(ls, gd), "rw", gd.rw_lock_),
            "mutex", gd.mutex_lock_),
        "rd", gd.shared_)

\* ------------------------------------------------------------ Lock Holder
\* What a LockGuard accessor does under policy_ p: the kind of guard it
\* acquires and returns, or the exception it raises.
\* variant: no LockFree branch
LockGuard_write_lock_Mut(p) ==
    IF p = "Mutex" THEN "mutex"
    ELSE IF p = "SpinLock" THEN "spin"
    ELSE "logic_error"

\* variant: LockFree takes the mutex
LockGuard_write_lock_MutFree(p) ==
    IF p = "Mutex" THEN "mutex"
    ELSE IF p = "SpinLock" THEN "spin"
    ELSE IF p = "LockFree" THEN "mutex"
    ELSE "logic_error"

LockGuard_write_lock(p) ==
    IF p = "Mutex" THEN "mutex"
    ELSE IF p = "SpinLock" THEN "spin"
    ELSE IF p = "LockFree" THEN "null"
    ELSE "logic_error"

LockGuard_lock(p) == LockGuard_write_lock(p)

\* variant: read_lock() falls back to the mutex under Mutex
LockGuard_read_lock_Mut(p) ==
    IF p = "ReadWrite" THEN "shared"
    ELSE IF p = "Mutex" THEN "mutex"
    ELSE "logic_error"

LockGuard_read_lock(p) ==
    IF p = "ReadWrite" THEN "shared" ELSE "logic_error"

\* variant: unique_lock_rw() takes the shared_mutex in shared mode
LockGuard_unique_lock_rw_Mut(p) ==
    IF p = "ReadWrite" THEN "shared" ELSE "logic_error"

LockGuard_unique_lock_rw(p) ==
    IF p = "ReadWrite" THEN "unique_rw" ELSE "logic_error"

\* ------------------------------------------------- Protected-Access Mixin
\* container_mixin::lock_guard_ of the one shared container
lock_guard_ == 1

\* variant: ReadWrite writers routed to read_lock()
acquire_write_lock_Mut(P) ==
    IF P = "Mutex" THEN LockGuard_lock(P)
    ELSE IF P = "SpinLock" THEN LockGuard_lock(P)
    ELSE IF P = "LockFree" THEN LockGuard_lock(P)
    ELSE LockGuard_read_lock(P)

\* variant: Mutex writers take no lock
acquire_write_lock_MutNull(P) ==
    IF P = "Mutex" THEN "null"
    ELSE IF P = "SpinLock" THEN LockGuard_lock(P)
    ELSE IF P = "LockFree" THEN LockGuard_lock(P)
    ELSE LockGuard_unique_lock_rw(P)

acquire_write_lock(P) ==
    IF P = "Mutex" THEN LockGuard_lock(P)
    ELSE IF P = "SpinLock" THEN LockGuard_lock(P)
    ELSE IF P = "LockFree" THEN LockGuard_lock(P)
    ELSE LockGuard_unique_lock_rw(P)

\* variant: ReadWrite readers routed to unique_lock_rw()
acquire_read_lock_MutRW(P) ==
    IF P = "LockFree" THEN LockGuard_lock(P)
    ELSE IF P = "SpinLock" THEN LockGuard_lock(P)
    ELSE IF P = "ReadWrite" THEN LockGuard_unique_lock_rw(P)
    ELSE LockGuard_lock(P)

\* variant: Mutex readers take no lock
acquire_read_lock_Mut(P) ==
    IF P = "LockFree" THEN LockGuard_lock(P)
    ELSE IF P = "SpinLock" THEN LockGuard_lock(P)
    ELSE IF P = "ReadWrite" THEN LockGuard_read_lock(P)
    ELSE "null"

\* variant: SpinLock readers take no lock
acquire_read_lock_MutSpin(P) ==
    IF P = "LockFree" THEN LockGuard_lock(P)
    ELSE IF P = "SpinLock" THEN "null"
    ELSE IF P = "ReadWrite" THEN LockGuard_read_lock(P)
    ELSE LockGuard_lock(P)

acquire_read_lock(P) ==
    IF P = "LockFree" THEN LockGuard_lock(P)
    ELSE IF P = "SpinLock" THEN LockGuard_lock(P)
    ELSE IF P = "ReadWrite" THEN LockGuard_read_lock(P)
    ELSE LockGuard_lock(P)

\* ----------------------------------------------------------- the adapter
\* vector methods that take acquire_write_lock() / acquire_read_lock(), the
\* manual-scope helpers of the mixin, and the accessors of the Lock Holder
WriteMethods == {"push_back", "pop_back", "set", "get", "acquire_write_guard"}
ReadMethods == {"get_const", "size", "acquire_read_guard"}
HolderMethods == {"LockGuard::write_lock", "LockGuard::lock",
                  "LockGuard::read_lock", "LockGuard::unique_lock_rw"}
Methods == WriteMethods \cup ReadMethods \cup HolderMethods

\* lock scopes the caller fills with raw unsafe_* operations: the callback of
\* variant: taking the guard with acquire_write_guard() alone appends to the
\* container
ScopeMethodsMut ==
    {"with_write_lock", "acquire_write_guard; unsafe_push_back", "acquire_write_guard"}

\* with_write_lock, and the lifetime of a guard the caller took with
\* acquire_write_guard() to make unsafe_push_back calls under it
ScopeMethods == {"with_write_lock", "acquire_write_guard; unsafe_push_back"}

\* the escape-hatch helpers called outside any lock scope
UnsafeMethods == {"unsafe_size"}

\* unsafe_size / unsafe_empty / unsafe_ref: the acquisition they perform
\* variant: unsafe_size() takes the read lock like size()
unsafe_size_Mut(P) == acquire_read_lock(P)

unsafe_size(P) == "none"

\* the generic read helpers of the mixin, which traverse the container
ReadHelpers == {"for_each", "find_if", "contains", "count", "copy"}

\* vector(const vector& other) and operator=(const vector& other), run by a
\* thread that copies from the shared container `other`
CopyMethods == {"vector(const vector&)", "operator=(const vector&)"}

\* vector(vector&&): `data_ = std::move(other.data_)` under the guard of *this
MoveMethods == {"vector(vector&&)"}

\* what std::move leaves in other.data_
\* variant: the source keeps its elements
MoveSourceMut(d) == d

MoveSource(d) == <<>>

\* the lock_guard_ of the container being constructed or assigned to
this_lock_guard_ == 2

\* variant: the new container shares the Lock Holder of its source
LockOfMut(m) == lock_guard_

\* the Lock Holder a method locks: copy construction and copy assignment
\* call acquire_write_lock() of *this, every other method that of the
\* shared container
LockOf(m) ==
    IF m \in CopyMethods \cup MoveMethods THEN this_lock_guard_ ELSE lock_guard_

\* operator[] returns a reference into data_, which the caller writes
\* through in `vec[i] = v`
RefMethods == {"operator[]"}

\* front() const and back() const
EndMethods == {"front", "back"}

\* methods whose argument is a position
PosMethods == {"set", "get", "get_const", "operator[]"}

\* with_read_lock: the callback only reads
ReadScopes == {"with_read_lock"}

\* the locked mutators of map / unordered_map and of list that have an
\* unsafe_* counterpart, and those counterparts, which the caller runs
\* between acquire_write_guard() and the destruction of the guard
LockedMutators == {"map::insert", "list::pop_back", "list::pop_front",
                   "list::push_back", "list::clear"}
UnsafeMutators == {"map::unsafe_insert", "list::unsafe_pop_back",
                   "list::unsafe_pop_front", "list::unsafe_push_back",
                   "list::unsafe_clear"}

\* the locked method an unsafe_* mutator stands for
Counterpart(m) ==
    IF m = "map::unsafe_insert" THEN "map::insert"
    ELSE IF m = "list::unsafe_pop_back" THEN "list::pop_back"
    ELSE IF m = "list::unsafe_pop_front" THEN "list::pop_front"
    ELSE IF m = "list::unsafe_push_back" THEN "list::push_back"
    ELSE "list::clear"

\* set::insert and unordered_set::insert
SetWriters == {"set::insert"}

\* the deque methods that differ from the vector's
DequeWriters == {"deque::push_back", "deque::push_front", "deque::pop_back",
                 "deque::pop_front", "deque::set"}
DequeReaders == {"deque::get"}

\* the acquisition a method performs on entry
Acquisition(m, P) ==
    IF m \in WriteMethods \cup ScopeMethods \cup CopyMethods \cup RefMethods
              \cup SetWriters \cup DequeWriters \cup MoveMethods
              \cup LockedMutators \cup UnsafeMutators
    THEN acquire_write_lock(P)
    ELSE IF m \in ReadMethods \cup ReadHelpers \cup EndMethods \cup DequeReaders
                   \cup ReadScopes
    THEN acquire_read_lock(P)
    ELSE IF m \in UnsafeMethods THEN unsafe_size(P)
    ELSE IF m = "LockGuard::write_lock" THEN LockGuard_write_lock(P)
    ELSE IF m = "LockGuard::lock" THEN LockGuard_lock(P)
    ELSE IF m = "LockGuard::read_lock" THEN LockGuard_read_lock(P)
    ELSE LockGuard_unique_lock_rw(P)

\* the k-th value thread t appends; distinct for distinct (t, k)
PushValue(t, k) == 10 * t + k
SetValue(t) == 100 + t

\* the k-th key thread t inserts; neighbouring threads share a key
InsertKey(t, k) == t + k - 1

\* the default_value argument of deque::get
DefaultValue == 99

\* a map as the sequence of its <<key, value>> entries in key order: the
\* entries d with the entry <<k, v>> put at its place
PutEntry(d, k, v) ==
    LET n == Cardinality({i \in 1..Len(d) : d[i][1] < k})
        rest == SubSeq(d, n + 1, Len(d))
    IN SubSeq(d, 1, n) \o <<<<k, v>>>> \o
       (IF rest # <<>> /\ rest[1][1] = k THEN Tail(rest) ELSE rest)

\* `data_.insert({key, value})`: nothing happens when the key is present
MapInsert(d, k, v) ==
    IF \E i \in 1..Len(d) : d[i][1] = k THEN d ELSE PutEntry(d, k, v)

\* `data_[key] = value`: the value of a present key is replaced
MapAssign(d, k, v) == PutEntry(d, k, v)

\* std::set::insert on the keys d, kept in order: a key that is present is
\* not inserted again
\* variant: the key is inserted whether present or not
SetInsertMut(d, k) ==
    LET n == Cardinality({i \in 1..Len(d) : d[i] < k})
    IN SubSeq(d, 1, n) \o <<k>> \o SubSeq(d, n + 1, Len(d))

SetInsert(d, k) ==
    IF \E i \in 1..Len(d) : d[i] = k THEN d
    ELSE LET n == Cardinality({i \in 1..Len(d) : d[i] < k})
         IN SubSeq(d, 1, n) \o <<k>> \o SubSeq(d, n + 1, Len(d))

\* the k-th value the o-th operation of thread t appends with
\* unsafe_push_back inside its lock scope
BatchValue(t, o, k) == 1000 * o + 100 * t + k

\* the value vector(count, value) fills with, and the one contains(), count()
\* and the predicate of find_if look for
Filler == 7
Sought == Filler

\* inner: the locking method the operation's callback, or the code under its
\* guard, is calling on the same container
NoOp == [m |-> "none", pos |-> 0, v |-> 0, inner |-> "none"]
NoResult == [status |-> "none", val |-> 0]

\* variant: the deque raises on an empty pop and on an index past the end
ThrowsMutDeque(op, d) ==
    IF op.m \in {"deque::pop_back", "deque::pop_front"} THEN d = <<>>
    ELSE IF op.m \in {"deque::set", "deque::get"} THEN op.pos >= Len(d)
    ELSE FALSE

\* variant: the bounds check rejects the last valid position as well
ThrowsMutStrict(op, d) ==
    IF op.m \in {"pop_back", "front", "back"} THEN d = <<>>
    ELSE IF op.m \in RefMethods THEN FALSE
    ELSE IF op.m \in PosMethods THEN op.pos + 1 >= Len(d)
    ELSE FALSE

\* does the body of the method raise std::out_of_range on contents d
\* variant: the bounds check lets pos == size() through
ThrowsMut(op, d) ==
    IF op.m \in {"pop_back", "front", "back"} THEN d = <<>>
    ELSE IF op.m \in RefMethods THEN FALSE
    ELSE IF op.m \in PosMethods THEN op.pos > Len(d)
    ELSE FALSE

Throws(op, d) ==
    IF op.m \in {"pop_back", "front", "back", "list::pop_back", "list::pop_front"}
    THEN d = <<>>
    ELSE IF op.m \in RefMethods THEN FALSE
    ELSE IF op.m \in PosMethods THEN op.pos >= Len(d)
    ELSE FALSE

\* the body of a mutating method, applied to the contents d it read
Effect(op, d) ==
    IF op.m = "push_back" THEN Append(d, op.v)
    ELSE IF op.m \in ScopeMethods THEN Append(d, op.v)
    ELSE IF op.m = "pop_back" THEN SubSeq(d, 1, Len(d) - 1)
    ELSE IF op.m = "set" THEN [d EXCEPT ![op.pos + 1] = op.v]
    ELSE IF op.m = "set::insert" THEN SetInsert(d, op.v)
    ELSE IF op.m \in MoveMethods THEN MoveSource(d)
    ELSE IF op.m = "map::insert" THEN MapInsert(d, op.pos, op.v)
    ELSE IF op.m = "map::unsafe_insert" THEN MapAssign(d, op.pos, op.v)
    ELSE IF op.m \in {"list::push_back", "list::unsafe_push_back"} THEN Append(d, op.v)
    ELSE IF op.m \in {"list::clear", "list::unsafe_clear"} THEN <<>>
    ELSE IF op.m = "list::pop_back" THEN SubSeq(d, 1, Len(d) - 1)
    ELSE IF op.m = "list::pop_front" THEN Tail(d)
    ELSE IF op.m = "list::unsafe_pop_back"
    THEN (IF d # <<>> THEN SubSeq(d, 1, Len(d) - 1) ELSE d)
    ELSE IF op.m = "list::unsafe_pop_front"
    THEN (IF d # <<>> THEN Tail(d) ELSE d)
    ELSE IF op.m = "deque::push_back" THEN Append(d, op.v)
    ELSE IF op.m = "deque::push_front" THEN <<op.v>> \o d
    ELSE IF op.m = "deque::pop_back"
    THEN (IF d # <<>> THEN SubSeq(d, 1, Len(d) - 1) ELSE d)
    ELSE IF op.m = "deque::pop_front"
    THEN (IF d # <<>> THEN Tail(d) ELSE d)
    ELSE IF op.m = "deque::set"
    THEN (IF op.pos < Len(d) THEN [d EXCEPT ![op.pos + 1] = op.v] ELSE d)
    ELSE d

\* the value a method returns on contents d
Returns(op, d) ==
    IF op.m \in {"get", "get_const"} THEN d[op.pos + 1]
    ELSE IF op.m = "deque::get"
    THEN (IF op.pos < Len(d) THEN d[op.pos + 1] ELSE op.v)
    ELSE IF op.m \in {"size", "unsafe_size"} THEN Len(d)
    ELSE IF op.m = "front" THEN d[1]
    ELSE IF op.m = "back" THEN d[Len(d)]
    ELSE 0

Mutators == {"push_back", "pop_back", "set"}

\* a traversal by a read helper: acc is what it gathered from the n
\* elements visited so far.  std::find and std::find_if stop at the first
\* match; std::for_each, std::count and the copy visit every element.
HelperDone(op, acc, n, d) ==
    \/ n >= Len(d)
    \/ op.m \in {"contains", "find_if"} /\ acc # <<>>

\* variant: std::count stops counting after the first match
HelperVisitMut(op, acc, x) ==
    IF op.m \in {"copy", "for_each"} \cup CopyMethods THEN Append(acc, x)
    ELSE IF x = op.v /\ acc = <<>> THEN Append(acc, x)
    ELSE acc

\* the visit of element x: copy and for_each take every element, the
\* searches the elements equal to the sought value
HelperVisit(op, acc, x) ==
    IF op.m \in {"copy", "for_each"} \cup CopyMethods THEN Append(acc, x)
    ELSE IF x = op.v THEN Append(acc, x)
    ELSE acc

\* what the helper returns after visiting n elements: contains a truth
\* value (1 / 0), count a number, find_if the position of the match or end();
\* the copy itself is the sequence gathered
HelperResult(op, acc, n) ==
    IF op.m = "contains" THEN (IF acc # <<>> THEN 1 ELSE 0)
    ELSE IF op.m = "count" THEN Len(acc)
    ELSE IF op.m = "find_if" THEN (IF acc # <<>> THEN n - 1 ELSE n)
    ELSE 0

\* where control goes after the n-th raw operation of a lock scope: to the
\* next one, or to the end of the scope, where the guard is destroyed
ScopeEnd(n) == IF n < BatchLen THEN "body" ELSE "release"

\* --------------------------------------------------------- thread actions
\* a thread enters a method
Call(t, m, pos) ==
    /\ pc[t] = "idle"
    /\ ops[t] < MaxOps
    /\ ops' = [ops EXCEPT ![t] = @ + 1]
    /\ cur' = [cur EXCEPT ![t] =
                 [m |-> m,
                  pos |-> IF m \in PosMethods \cup {"deque::get", "deque::set",
                                                    "map::insert", "map::unsafe_insert"}
                          THEN pos ELSE 0,
                  v |-> IF m \in {"push_back", "deque::push_back", "deque::push_front",
                                  "map::insert", "map::unsafe_insert",
                                  "list::push_back", "list::unsafe_push_back"}
                        THEN PushValue(t, ops[t] + 1)
                        ELSE IF m \in {"set", "operator[]", "deque::set"} THEN SetValue(t)
                        ELSE IF m = "set::insert" THEN InsertKey(t, ops[t] + 1)
                        ELSE IF m = "deque::get" THEN DefaultValue
                        ELSE IF m \in ReadHelpers THEN Sought ELSE 0,
                  inner |-> "none"]]
    /\ pc' = [pc EXCEPT ![t] = IF Acquisition(m, policy) = "none" THEN "body"
                                ELSE "acquire"]
    /\ result' = [result EXCEPT ![t] = NoResult]
    /\ UNCHANGED <<container, policy, dtor_resets, lockvars, data_, guard, snap, step, guardvars>>

\* `auto guard = acquire_..._lock();` : blocks until the lock is obtained,
\* or the Lock Holder raises std::logic_error
Acquire(t) ==
    /\ pc[t] = "acquire"
    /\ LET a == Acquisition(cur[t].m, policy)
           l == LockOf(cur[t].m)
       IN \/ /\ a = "logic_error"
             /\ result' = [result EXCEPT ![t] = [status |-> "logic_error", val |-> 0]]
             /\ pc' = [pc EXCEPT ![t] = "idle"]
             /\ cur' = [cur EXCEPT ![t] = NoOp]
             /\ UNCHANGED <<lockvars, guard>>
          \/ /\ a = "mutex"
             /\ MutexCanLock(LS, l)
             /\ SetLS(MutexLock(LS, l))
             /\ guard' = [guard EXCEPT ![t] = UnifiedFromMutex(l)]
             /\ pc' = [pc EXCEPT ![t] = "body"]
             /\ UNCHANGED <<result, cur>>
          \/ /\ a = "spin"
             /\ SpinLock_CanLock(LS, l)
             /\ SetLS(SpinLock_lock(LS, l))
             /\ guard' = [guard EXCEPT ![t] = UnifiedFromSpin(l)]
             /\ pc' = [pc EXCEPT ![t] = "body"]
             /\ UNCHANGED <<result, cur>>
          \/ /\ a = "null"
             /\ guard' = [guard EXCEPT ![t] = UnifiedFromNull]
             /\ pc' = [pc EXCEPT ![t] = "body"]
             /\ UNCHANGED <<lockvars, result, cur>>
          \/ /\ a = "unique_rw"
             /\ SharedCanLock(LS, l)
             /\ SetLS(SharedLock(LS, l))
             /\ guard' = [guard EXCEPT ![t] = UniqueRW(l)]
             /\ pc' = [pc EXCEPT ![t] = "body"]
             /\ UNCHANGED <<result, cur>>
          \/ /\ a = "shared"
             /\ SharedCanLockShared(LS, l)
             /\ SetLS(SharedLockShared(LS, l))
             /\ guard' = [guard EXCEPT ![t] = SharedRW(l)]
             /\ pc' = [pc EXCEPT ![t] = "body"]
             /\ UNCHANGED <<result, cur>>
    /\ UNCHANGED <<container, policy, dtor_resets, data_, snap, ops, step, guardvars>>

\* where control goes when the body throws: unwinding runs ~guard
\* variant: the exception leaves the method without running ~guard
ThrowTargetMut == "idle"

ThrowTarget == "release"

\* the body reads the container: bounds check, element read, size
Body(t) ==
    /\ pc[t] = "body"
    /\ IF Throws(cur[t], data_)
       THEN /\ result' = [result EXCEPT ![t] = [status |-> "out_of_range", val |-> 0]]
            /\ pc' = [pc EXCEPT ![t] = ThrowTarget]
            /\ UNCHANGED <<snap, step>>
       ELSE IF cur[t].m \in Mutators \cup ScopeMethods \cup SetWriters \cup DequeWriters
                            \cup MoveMethods \cup LockedMutators \cup UnsafeMutators
       THEN /\ snap' = [snap EXCEPT ![t] = data_]
            /\ pc' = [pc EXCEPT ![t] = "write"]
            /\ UNCHANGED <<result, step>>
       ELSE IF cur[t].m \in RefMethods
       THEN /\ snap' = [snap EXCEPT ![t] = data_]
            /\ result' = [result EXCEPT ![t] = [status |-> "ok", val |-> 0]]
            /\ pc' = [pc EXCEPT ![t] = "release"]
            /\ UNCHANGED step
       ELSE IF cur[t].m \in ReadHelpers \cup CopyMethods
       THEN IF HelperDone(cur[t], snap[t], step[t], data_)
            THEN /\ result' = [result EXCEPT ![t] =
                      [status |-> "ok",
                       val |-> HelperResult(cur[t], snap[t], step[t])]]
                 /\ pc' = [pc EXCEPT ![t] = "release"]
                 /\ UNCHANGED <<snap, step>>
            ELSE /\ snap' = [snap EXCEPT ![t] =
                      HelperVisit(cur[t], @, data_[step[t] + 1])]
                 /\ step' = [step EXCEPT ![t] = @ + 1]
                 /\ UNCHANGED <<result, pc>>
       ELSE /\ result' = [result EXCEPT ![t] =
                            [status |-> "ok", val |-> Returns(cur[t], data_)]]
            /\ pc' = [pc EXCEPT ![t] = "release"]
            /\ UNCHANGED <<snap, step>>
    /\ UNCHANGED <<container, policy, dtor_resets, lockvars, data_, cur, guard, ops, guardvars>>

\* the body writes the container
Write(t) ==
    /\ pc[t] = "write"
    /\ LET scoped == cur[t].m \in ScopeMethods
           op == [cur[t] EXCEPT !.v = IF scoped THEN BatchValue(t, ops[t], step[t] + 1)
                                      ELSE @]
       IN /\ data_' = Effect(op, snap[t])
          /\ step' = [step EXCEPT ![t] = IF scoped THEN @ + 1 ELSE @]
          /\ pc' = [pc EXCEPT ![t] = IF scoped THEN ScopeEnd(step[t] + 1)
                                      ELSE "release"]
    /\ result' = [result EXCEPT ![t] = [status |-> "ok", val |-> 0]]
    /\ snap' = [snap EXCEPT ![t] = IF cur[t].m \in MoveMethods THEN @ ELSE <<>>]
    /\ UNCHANGED <<container, policy, dtor_resets, lockvars, cur, guard, ops, guardvars>>

\* the guard goes out of scope (normal return or unwinding)
Release(t) ==
    /\ pc[t] = "release"
    /\ SetLS(GuardDtor(LS, guard[t]))
    /\ guard' = [guard EXCEPT ![t] = NoGuard]
    /\ IF cur[t].m \in RefMethods
       THEN /\ pc' = [pc EXCEPT ![t] = "store"]
            /\ UNCHANGED <<cur, snap>>
       ELSE /\ pc' = [pc EXCEPT ![t] = "idle"]
            /\ cur' = [cur EXCEPT ![t] = NoOp]
            /\ snap' = [snap EXCEPT ![t] = <<>>]
    /\ step' = [step EXCEPT ![t] = 0]
    /\ UNCHANGED <<container, policy, dtor_resets, data_, result, ops, guardvars>>

\* `vec[i] = v`: after operator[] has returned, its guard destroyed, the
\* caller stores through the reference.  The store lands in the element
\* while the reference still designates it; once the container was changed
\* after the reference was taken (snap is what it held then) the storage may
\* have been released or the element removed, and the store may land
\* outside the container.
Store(t) ==
    /\ pc[t] = "store"
    /\ \/ /\ cur[t].pos < Len(data_)
          /\ data_' = [data_ EXCEPT ![cur[t].pos + 1] = cur[t].v]
       \/ /\ snap[t] # data_ \/ cur[t].pos >= Len(data_)
          /\ data_' = data_
    /\ pc' = [pc EXCEPT ![t] = "idle"]
    /\ cur' = [cur EXCEPT ![t] = NoOp]
    /\ snap' = [snap EXCEPT ![t] = <<>>]
    /\ UNCHANGED <<container, policy, dtor_resets, lockvars, guard, result, ops, step, guardvars>>

\* the scopes whose callback, or whose code under the guard, can call back
\* into the container
OuterMethods == {"for_each", "with_write_lock", "acquire_write_guard; unsafe_push_back"}

\* variant: every second lock is reported
RelockReportedMut(gd, a) == TRUE

\* the thread locks, in either mode, the std::shared_mutex it owns as the
\* writer: the behaviour is undefined, and the underlying rwlock answers
\* EDEADLK, which std::shared_mutex::lock and lock_shared turn into
\* std::system_error(resource_deadlock_would_occur).  A std::mutex locked by
\* its owner, and a shared_mutex write-locked by one of its readers, wait.
RelockReported(gd, a) ==
    a \in {"unique_rw", "shared"} /\ gd.rw_lock_.owns

\* the callback of t's scope calls locking method m of the same container
Reenter(t, m) ==
    /\ pc[t] = "body"
    /\ cur[t].m \in OuterMethods
    /\ cur[t].inner = "none"
    /\ guard[t].cls # "none"
    /\ ops[t] < MaxOps
    /\ ops' = [ops EXCEPT ![t] = @ + 1]
    /\ cur' = [cur EXCEPT ![t].inner = m]
    /\ pc' = [pc EXCEPT ![t] = "nested"]
    /\ UNCHANGED <<container, policy, dtor_resets, lockvars, data_, guard, snap, result, step,
                   guardvars>>

\* the acquisition of the inner call, on the lock the thread's own guard
\* holds.  SpinLock::lock keeps spinning while the flag is set, and the
\* standard primitives return when they can be locked.  A reported second
\* lock raises std::system_error, which propagates out of the callback and
\* unwinds the scope.
NestedAcquire(t) ==
    /\ pc[t] = "nested"
    /\ LET a == Acquisition(cur[t].inner, policy)
           l == LockOf(cur[t].inner)
       IN \/ /\ a = "spin"
             /\ SpinLock_CanLock(LS, l)
             /\ SetLS(SpinLock_lock(LS, l))
             /\ pc' = [pc EXCEPT ![t] = "nested_body"]
             /\ UNCHANGED <<result, cur>>
          \/ /\ a = "mutex"
             /\ MutexCanLock(LS, l)
             /\ SetLS(MutexLock(LS, l))
             /\ pc' = [pc EXCEPT ![t] = "nested_body"]
             /\ UNCHANGED <<result, cur>>
          \/ /\ a = "unique_rw"
             /\ SharedCanLock(LS, l)
             /\ SetLS(SharedLock(LS, l))
             /\ pc' = [pc EXCEPT ![t] = "nested_body"]
             /\ UNCHANGED <<result, cur>>
          \/ /\ a = "shared"
             /\ SharedCanLockShared(LS, l)
             /\ SetLS(SharedLockShared(LS, l))
             /\ pc' = [pc EXCEPT ![t] = "nested_body"]
             /\ UNCHANGED <<result, cur>>
          \/ /\ RelockReported(guard[t], a)
             /\ result' = [result EXCEPT ![t] = [status |-> "system_error", val |-> 0]]
             /\ cur' = [cur EXCEPT ![t].inner = "none"]
             /\ pc' = [pc EXCEPT ![t] = ThrowTarget]
             /\ UNCHANGED lockvars
    /\ UNCHANGED <<container, policy, dtor_resets, data_, guard, snap, ops, step, guardvars>>

\* the inner call runs its body and destroys its own guard, and the callback
\* goes on
NestedReturn(t) ==
    /\ pc[t] = "nested_body"
    /\ LET a == Acquisition(cur[t].inner, policy)
           l == LockOf(cur[t].inner)
           op == [cur[t] EXCEPT !.m = cur[t].inner, !.v = PushValue(t, ops[t])]
       IN /\ SetLS(IF a = "spin" THEN SpinLock_unlock(LS, l)
                   ELSE IF a = "mutex" THEN MutexUnlock(LS, l)
                   ELSE IF a = "unique_rw" THEN SharedUnlock(LS, l)
                   ELSE SharedUnlockShared(LS, l))
          /\ data_' = Effect(op, data_)
          /\ result' = [result EXCEPT ![t] =
                          [status |-> "ok", val |-> Returns(op, data_)]]
    /\ cur' = [cur EXCEPT ![t].inner = "none"]
    /\ pc' = [pc EXCEPT ![t] = "body"]
    /\ UNCHANGED <<container, policy, dtor_resets, guard, snap, ops, step, guardvars>>

\* the callback handed to with_write_lock or with_read_lock throws: the
\* exception leaves func(derived()) and unwinds the scope of `guard`
CallbackThrows(t) ==
    /\ pc[t] = "body"
    /\ cur[t].m \in {"with_write_lock"} \cup ReadScopes
    /\ cur[t].inner = "none"
    /\ result' = [result EXCEPT ![t] = [status |-> "callback_exception", val |-> 0]]
    /\ pc' = [pc EXCEPT ![t] = ThrowTarget]
    /\ UNCHANGED <<container, policy, dtor_resets, lockvars, data_, cur, guard, snap, ops,
                   step, guardvars>>

\* ----------------------------------------------------------------- Init
Dead == [NoGuard EXCEPT !.cls = "dead"]

InitLocks ==
    /\ mutex_ = [l \in Locks |-> FALSE]
    /\ flag_ = [l \in Locks |-> FALSE]
    /\ shared_mutex_ = [l \in Locks |-> [writer |-> FALSE, readers |-> 0]]
    /\ acquired = [k \in Prims |-> 0]
    /\ released = [k \in Prims |-> 0]

InitThreads ==
    /\ pc = [t \in Threads |-> "idle"]
    /\ cur = [t \in Threads |-> NoOp]
    /\ guard = [t \in Threads |-> NoGuard]
    /\ snap = [t \in Threads |-> <<>>]
    /\ result = [t \in Threads |-> NoResult]
    /\ ops = [t \in Threads |-> 0]
    /\ step = [t \in Threads |-> 0]

NoPayload == <<"none", 0>>

InitGuards ==
    /\ g = [s \in Slots |-> Dead]
    /\ built = 0
    /\ moves = 0

\* vector() and vector(count, value)
InitialData == {<<>>, <<Filler>>}

Init ==
    /\ policy \in LockPolicy
    /\ dtor_resets = TRUE
    /\ data_ \in InitialData
    /\ container = "vector"
    /\ InitLocks /\ InitThreads /\ InitGuards

RECURSIVE CallsUpTo(_)
CallsUpTo(n) == IF n = 0 THEN 0 ELSE ops[n] + CallsUpTo(n - 1)

\* the calls started so far, by all threads
TotalCalls == CallsUpTo(NumThreads)

Next ==
    \/ /\ TotalCalls < MaxCalls
       /\ \E t \in Threads, m \in Methods, pos \in 0..MaxPos : Call(t, m, pos)
    \/ \E t \in Threads : Acquire(t)
    \/ \E t \in Threads : Body(t)
    \/ \E t \in Threads : Write(t)
    \/ \E t \in Threads : Release(t)

Spec == Init /\ [][Next]_vars

\* threads that only append: test_concurrent_access
InitPush ==
    /\ policy \in LockPolicy
    /\ dtor_resets = TRUE
    /\ data_ = <<>>
    /\ container = "vector"
    /\ InitLocks /\ InitThreads /\ InitGuards

NextPush ==
    \E t \in Threads :
        \/ Call(t, "push_back", 0)
        \/ Acquire(t)
        \/ Body(t)
        \/ Write(t)
        \/ Release(t)

SpecPush == InitPush /\ [][NextPush]_vars

\* threads that only insert keys into a shared set or unordered_set, or only
\* push at the two ends of a shared deque: test_concurrent_set,
\* test_concurrent_deque
InsertContainers == {"set", "unordered_set", "deque"}

InitInsert ==
    /\ container \in InsertContainers
    /\ policy \in LockPolicy \ {"LockFree"}
    /\ dtor_resets = TRUE
    /\ data_ = <<>>
    /\ InitLocks /\ InitThreads /\ InitGuards

NextInsert ==
    \/ \E t \in Threads :
          /\ container \in {"set", "unordered_set"}
          /\ Call(t, "set::insert", 0)
    \/ \E t \in Threads :
          /\ container = "deque"
          /\ Call(t, IF t % 2 = 0 THEN "deque::push_back" ELSE "deque::push_front", 0)
    \/ \E t \in Threads : Acquire(t)
    \/ \E t \in Threads : Body(t)
    \/ \E t \in Threads : Write(t)
    \/ \E t \in Threads : Release(t)

SpecInsert == InitInsert /\ [][NextInsert]_vars

\* callers that batch raw operations inside a lock scope next to callers of
\* protected operations and of the escape-hatch helpers:
\* test_unsafe_interfaces, test_manual_lock_control
ScopeCalls == ScopeMethods \cup {"size", "push_back", "unsafe_size"}

NextScope ==
    \/ /\ TotalCalls < MaxCalls
       /\ \E t \in Threads, m \in ScopeCalls : Call(t, m, 0)
    \/ \E t \in Threads : Acquire(t)
    \/ \E t \in Threads : Body(t)
    \/ \E t \in Threads : Write(t)
    \/ \E t \in Threads : Release(t)

\* containers with a locking policy
InitScope ==
    /\ policy \in LockPolicy \ {"LockFree"}
    /\ dtor_resets = TRUE
    /\ data_ \in InitialData
    /\ container = "vector"
    /\ InitLocks /\ InitThreads /\ InitGuards

SpecScope == InitScope /\ [][NextScope]_vars

\* readers using the generic helpers next to writers: vector(count, value),
\* test_iteration_and_find
InitRead ==
    /\ policy \in LockPolicy
    /\ dtor_resets = TRUE
    /\ data_ \in {<<Filler>>, <<Filler, Filler>>}
    /\ container = "vector"
    /\ InitLocks /\ InitThreads /\ InitGuards

ReadCalls == ReadHelpers \cup Mutators

NextRead ==
    \/ /\ TotalCalls < MaxCalls
       /\ \E t \in Threads, m \in ReadCalls : Call(t, m, 0)
    \/ \E t \in Threads : Acquire(t)
    \/ \E t \in Threads : Body(t)
    \/ \E t \in Threads : Write(t)
    \/ \E t \in Threads : Release(t)

SpecRead == InitRead /\ [][NextRead]_vars

\* the operations the mixin provides that only bracket or read the container
FrameMethods == {"size", "acquire_write_guard", "acquire_read_guard"} \cup ReadHelpers

\* callers of the guard and query interface next to callers that mutate
FrameCalls == FrameMethods \cup {"push_back", "pop_back"}

NextFrame ==
    \/ /\ TotalCalls < MaxCalls
       /\ \E t \in Threads, m \in FrameCalls : Call(t, m, 0)
    \/ \E t \in Threads : Acquire(t)
    \/ \E t \in Threads : Body(t)
    \/ \E t \in Threads : Write(t)
    \/ \E t \in Threads : Release(t)

SpecFrame == InitRead /\ [][NextFrame]_vars

\* one thread runs `if (vec.size() == 1) vec.get(0);` on a shared vector of
\* one element while the others pop and push
Observer == 1

NextSeq ==
    \/ /\ ops[Observer] = 0
       /\ Call(Observer, "size", 0)
    \/ /\ ops[Observer] = 1
       /\ result[Observer] = [status |-> "ok", val |-> 1]
       /\ Call(Observer, "get", 0)
    \/ \E t \in Threads \ {Observer}, m \in {"pop_back", "push_back"} : Call(t, m, 0)
    \/ \E t \in Threads : Acquire(t)
    \/ \E t \in Threads : Body(t)
    \/ \E t \in Threads : Write(t)
    \/ \E t \in Threads : Release(t)

InitSeq ==
    /\ policy \in LockPolicy \ {"LockFree"}
    /\ dtor_resets = TRUE
    /\ data_ = <<Filler>>
    /\ container = "vector"
    /\ InitLocks /\ InitThreads /\ InitGuards

SpecSeq == InitSeq /\ [][NextSeq]_vars

\* one thread copies from the shared container while the others mutate it:
\* vector b(a); b = a;
Copier == 1

CopyCalls(t) == IF t = Copier THEN CopyMethods ELSE Mutators

NextCopy ==
    \/ /\ TotalCalls < MaxCalls
       /\ \E t \in Threads : \E m \in CopyCalls(t) : Call(t, m, 0)
    \/ \E t \in Threads : Acquire(t)
    \/ \E t \in Threads : Body(t)
    \/ \E t \in Threads : Write(t)
    \/ \E t \in Threads : Release(t)

SpecCopy == InitRead /\ [][NextCopy]_vars

\* one thread copies or moves from a container no other thread is using, and
\* then uses the source again: test_copy_operations
InitCopyMove ==
    /\ container = "vector"
    /\ policy \in LockPolicy \ {"LockFree"}
    /\ dtor_resets = TRUE
    /\ data_ \in {<<PushValue(1, 1)>>, <<PushValue(1, 1), PushValue(1, 2)>>}
    /\ InitLocks /\ InitThreads /\ InitGuards

NextCopyMove ==
    \/ /\ ops[Copier] = 0
       /\ \E m \in CopyMethods \cup MoveMethods : Call(Copier, m, 0)
    \/ /\ ops[Copier] > 0
       /\ \E m \in {"size", "push_back"} : Call(Copier, m, 0)
    \/ Acquire(Copier)
    \/ Body(Copier)
    \/ Write(Copier)
    \/ Release(Copier)

SpecCopyMove == InitCopyMove /\ [][NextCopyMove]_vars

\* callers of `vec[i] = v` next to callers of protected operations
RefCalls == RefMethods \cup {"push_back", "pop_back", "size"}

NextRef ==
    \/ /\ TotalCalls < MaxCalls
       /\ \E t \in Threads, m \in RefCalls, pos \in 0..MaxPos : Call(t, m, pos)
    \/ \E t \in Threads : Acquire(t)
    \/ \E t \in Threads : Body(t)
    \/ \E t \in Threads : Write(t)
    \/ \E t \in Threads : Release(t)
    \/ \E t \in Threads : Store(t)

SpecRef == InitRead /\ [][NextRef]_vars

\* callers of the operations that raise std::out_of_range, with positions
\* up to one past MaxPos: test_exception_handling
FailCalls == {"get", "get_const", "set", "pop_back", "front", "back", "push_back"}

NextFail ==
    \/ /\ TotalCalls < MaxCalls
       /\ \E t \in Threads, m \in FailCalls, pos \in 0..(MaxPos + 1) : Call(t, m, pos)
    \/ \E t \in Threads : Acquire(t)
    \/ \E t \in Threads : Body(t)
    \/ \E t \in Threads : Write(t)
    \/ \E t \in Threads : Release(t)

SpecFail == Init /\ [][NextFail]_vars

\* threads that make only non-nested protected operations on a locking
\* container, scheduled fairly: a thread that can run its body or destroy
\* its guard eventually does, and a thread that can take the lock again and
\* again eventually takes it
LiveCalls == {"push_back", "pop_back", "size"}

NextLive ==
    \/ /\ TotalCalls < MaxCalls
       /\ \E t \in Threads, m \in LiveCalls : Call(t, m, 0)
    \/ \E t \in Threads : Acquire(t)
    \/ \E t \in Threads : Body(t)
    \/ \E t \in Threads : Write(t)
    \/ \E t \in Threads : Release(t)

Fairness ==
    \A t \in Threads :
        /\ WF_vars(Body(t) \/ Write(t) \/ Release(t))
        /\ SF_vars(Acquire(t))

SpecLive == InitScope /\ [][NextLive]_vars /\ Fairness

\* callers whose callbacks call size() or push_back() of the container they
\* are iterating or batching on
InnerCalls == {"size", "push_back"}

NextNest ==
    \/ /\ TotalCalls < MaxCalls
       /\ \E t \in Threads, m \in OuterMethods : Call(t, m, 0)
    \/ /\ TotalCalls < MaxCalls
       /\ \E t \in Threads, m \in InnerCalls : Reenter(t, m)
    \/ \E t \in Threads : NestedAcquire(t)
    \/ \E t \in Threads : NestedReturn(t)
    \/ \E t \in Threads : Acquire(t)
    \/ \E t \in Threads : Body(t)
    \/ \E t \in Threads : Write(t)
    \/ \E t \in Threads : Release(t)

InitNest ==
    /\ policy \in LockPolicy \ {"LockFree"}
    /\ dtor_resets = TRUE
    /\ data_ \in {<<Filler>>, <<Filler, Filler>>}
    /\ container = "vector"
    /\ InitLocks /\ InitThreads /\ InitGuards

SpecNest == InitNest /\ [][NextNest]_vars

\* --------------------------------------------- a SpinLock used directly
\* Threads that share one SpinLock object and call lock, try_lock and unlock
\* on it themselves.  step[t] is the number of lock()/try_lock() calls of t
\* that succeeded and were not yet followed by its unlock().
Contenders == 1..(NumThreads + 1)

\* the SpinLock the contenders share
Contended == 1

\* t, which does not hold the lock, calls lock(): it enters the loop of lock()
LockCall(t) ==
    /\ pc[t] = "idle"
    /\ step[t] = 0
    /\ pc' = [pc EXCEPT ![t] = "spin"]
    /\ cur' = [cur EXCEPT ![t].m = "SpinLock::lock"]
    /\ UNCHANGED <<container, policy, dtor_resets, lockvars, data_, guard, snap, result, ops,
                   step, guardvars>>

\* t calls lock() again without having called unlock()
Relock(t) ==
    /\ pc[t] = "idle"
    /\ step[t] > 0
    /\ pc' = [pc EXCEPT ![t] = "spin"]
    /\ cur' = [cur EXCEPT ![t].m = "SpinLock::lock"]
    /\ UNCHANGED <<container, policy, dtor_resets, lockvars, data_, guard, snap, result, ops,
                   step, guardvars>>

\* the test_and_set of the loop in lock() finds the flag clear: lock() returns.
\* An iteration that finds the flag set changes nothing.
LockReturn(t) ==
    /\ pc[t] = "spin"
    /\ SpinLock_CanLock(LS, Contended)
    /\ flag_' = SpinLock_lock(LS, Contended).flag_
    /\ step' = [step EXCEPT ![t] = @ + 1]
    /\ pc' = [pc EXCEPT ![t] = "idle"]
    /\ cur' = [cur EXCEPT ![t] = NoOp]
    /\ UNCHANGED <<container, policy, dtor_resets, mutex_, shared_mutex_, acquired, released,
                   data_, guard, snap, result, ops, guardvars>>

\* t calls try_lock(): one step, whatever the flag is
TryLock(t) ==
    /\ pc[t] = "idle"
    /\ LET r == SpinLock_try_lock(LS, Contended)
       IN /\ flag_' = r.ls.flag_
          /\ result' = [result EXCEPT ![t] =
                          [status |-> "ok", val |-> IF r.ret THEN 1 ELSE 0]]
          /\ step' = [step EXCEPT ![t] = IF r.ret THEN @ + 1 ELSE @]
    /\ UNCHANGED <<container, policy, dtor_resets, mutex_, shared_mutex_, acquired, released,
                   data_, pc, cur, guard, snap, ops, guardvars>>

\* t, which holds the lock, calls unlock()
UnlockCall(t) ==
    /\ pc[t] = "idle"
    /\ step[t] > 0
    /\ flag_' = SpinLock_unlock(LS, Contended).flag_
    /\ step' = [step EXCEPT ![t] = @ - 1]
    /\ UNCHANGED <<container, policy, dtor_resets, mutex_, shared_mutex_, acquired, released,
                   data_, pc, cur, guard, snap, result, ops, guardvars>>

InitSpin ==
    /\ policy = "SpinLock"
    /\ dtor_resets = TRUE
    /\ data_ = <<>>
    /\ container = "vector"
    /\ InitLocks
    /\ pc = [t \in Contenders |-> "idle"]
    /\ cur = [t \in Contenders |-> NoOp]
    /\ guard = [t \in Contenders |-> NoGuard]
    /\ snap = [t \in Contenders |-> <<>>]
    /\ result = [t \in Contenders |-> NoResult]
    /\ ops = [t \in Contenders |-> 0]
    /\ step = [t \in Contenders |-> 0]
    /\ InitGuards

NextSpin ==
    \/ \E t \in Contenders : LockCall(t)
    \/ \E t \in Contenders : Relock(t)
    \/ \E t \in Contenders : LockReturn(t)
    \/ \E t \in Contenders : TryLock(t)
    \/ \E t \in Contenders : UnlockCall(t)

SpecSpin == InitSpin /\ [][NextSpin]_vars

\* The contenders lock and unlock the SpinLock over and over, and the
\* scheduler never lets the test_and_set of the last contender come first
\* when the flag is clear.
Victim == NumThreads + 1

NextStarve ==
    \/ \E t \in Contenders : LockCall(t)
    \/ \E t \in Contenders \ {Victim} : LockReturn(t)
    \/ \E t \in Contenders \ {Victim} : TryLock(t)
    \/ \E t \in Contenders \ {Victim} : UnlockCall(t)

\* every thread keeps running, and each of the other contenders wins the
\* flag again and again
FairnessStarve ==
    /\ \A t \in Contenders : WF_vars(LockCall(t))
    /\ \A t \in Contenders \ {Victim} :
         /\ SF_vars(LockReturn(t))
         /\ WF_vars(UnlockCall(t))

SpecStarve == InitSpin /\ [][NextStarve]_vars /\ FairnessStarve

\* callers of with_write_lock and with_read_lock whose callbacks may throw,
\* next to callers of protected operations
ThrowCalls == {"with_write_lock", "with_read_lock", "push_back", "size"}

NextThrow ==
    \/ /\ TotalCalls < MaxCalls
       /\ \E t \in Threads, m \in ThrowCalls : Call(t, m, 0)
    \/ \E t \in Threads : CallbackThrows(t)
    \/ \E t \in Threads : Acquire(t)
    \/ \E t \in Threads : Body(t)
    \/ \E t \in Threads : Write(t)
    \/ \E t \in Threads : Release(t)

SpecThrow == InitScope /\ [][NextThrow]_vars

\* callers of every deque operation, on an empty and on a one-element deque,
\* with indices inside and past the end: test_deque_basic run from
\* several threads, as test_concurrent_deque does
DequeCalls == DequeWriters \cup DequeReaders

InitDeque ==
    /\ container = "deque"
    /\ policy \in LockPolicy \ {"LockFree"}
    /\ dtor_resets = TRUE
    /\ data_ \in {<<>>, <<Filler>>}
    /\ InitLocks /\ InitThreads /\ InitGuards

NextDeque ==
    \/ /\ TotalCalls < MaxCalls
       /\ \E t \in Threads, m \in DequeCalls, pos \in 0..(MaxPos + 1) : Call(t, m, pos)
    \/ \E t \in Threads : Acquire(t)
    \/ \E t \in Threads : Body(t)
    \/ \E t \in Threads : Write(t)
    \/ \E t \in Threads : Release(t)

SpecDeque == InitDeque /\ [][NextDeque]_vars

\* callers of the locked mutators of a map or a list next to callers that
\* take the write guard and run the unsafe_* counterpart under it:
\* test_manual_lock_control
MethodsOf(c) ==
    IF c = "map" THEN {"map::insert", "map::unsafe_insert"}
    ELSE (LockedMutators \cup UnsafeMutators) \ {"map::insert", "map::unsafe_insert"}

InitUnsafe ==
    /\ container \in {"map", "list"}
    /\ policy \in LockPolicy \ {"LockFree"}
    /\ dtor_resets = TRUE
    /\ data_ \in IF container = "map" THEN {<<>>, <<<<0, Filler>>>>}
                  ELSE {<<>>, <<Filler>>}
    /\ InitLocks /\ InitThreads /\ InitGuards

NextUnsafe ==
    \/ /\ TotalCalls < MaxCalls
       /\ \E t \in Threads, m \in MethodsOf(container), pos \in 0..(MaxPos + 1) :
             Call(t, m, pos)
    \/ \E t \in Threads : Acquire(t)
    \/ \E t \in Threads : Body(t)
    \/ \E t \in Threads : Write(t)
    \/ \E t \in Threads : Release(t)

SpecUnsafe == InitUnsafe /\ [][NextUnsafe]_vars

\* ------------------------------------------------ guard objects in use
\* the payload the tag of a guard designates: <<kind, primitive>>
Payload(gd) ==
    IF gd.cls # "unified" THEN NoPayload
    ELSE IF gd.lock_type_ = 0 /\ gd.mutex_lock_.owns THEN <<"mutex", gd.mutex_lock_.dev>>
    ELSE IF gd.lock_type_ = 1 /\ gd.spinlock_ # 0 THEN <<"spin", gd.spinlock_>>
    ELSE IF gd.lock_type_ = 2 /\ gd.rw_lock_.owns THEN <<"rw", gd.rw_lock_.dev>>
    ELSE NoPayload

\* the members as an explicit `this->~UnifiedLockGuard()` leaves them: the
\* members' lifetime has ended, and whether ~unique_lock left owns cleared
\* depends on the build
AfterDtor(gd) ==
    [gd EXCEPT !.mutex_lock_.owns = IF dtor_resets THEN FALSE ELSE @,
               !.rw_lock_.owns = IF dtor_resets THEN FALSE ELSE @]

\* `other.spinlock_ = nullptr; other.lock_type_ = -1;`
\* variant: the source keeps its tag and spinlock_
ClearSourceMut(gd) == gd

ClearSource(gd) == [gd EXCEPT !.spinlock_ = 0, !.lock_type_ = -1]

\* the source after `x = std::move(other.x)` of the member its tag selects
MovedOut(src) ==
    [src EXCEPT !.mutex_lock_ = IF src.lock_type_ = 0 THEN NullRef ELSE @,
                !.rw_lock_ = IF src.lock_type_ = 2 THEN NullRef ELSE @]

\* UnifiedLockGuard(UnifiedLockGuard&& other): the new object
MoveCtorDst(src) ==
    [NoGuard EXCEPT !.cls = "unified",
                    !.spinlock_ = src.spinlock_,
                    !.lock_type_ = src.lock_type_,
                    !.mutex_lock_ = IF src.lock_type_ = 0 THEN src.mutex_lock_ ELSE NullRef,
                    !.rw_lock_ = IF src.lock_type_ = 2 THEN src.rw_lock_ ELSE NullRef]

\* operator=(UnifiedLockGuard&& other), this # &other: the lock state after
\* the explicit destructor call and the unique_lock move assignment, which
\* unlocks what the destination member still owns
MoveAssignLocks(ls, dst, src) ==
    LET ls1 == GuardDtor(ls, dst)
        d1 == AfterDtor(dst)
    IN IF src.lock_type_ = 0 THEN UniqueLockDtor(ls1, "mutex", d1.mutex_lock_)
       ELSE IF src.lock_type_ = 2 THEN UniqueLockDtor(ls1, "rw", d1.rw_lock_)
       ELSE ls1

\* operator=(UnifiedLockGuard&& other), this # &other: the destination
MoveAssignDst(dst, src) ==
    [AfterDtor(dst) EXCEPT
        !.spinlock_ = src.spinlock_,
        !.lock_type_ = src.lock_type_,
        !.mutex_lock_ = IF src.lock_type_ = 0 THEN src.mutex_lock_ ELSE @,
        !.rw_lock_ = IF src.lock_type_ = 2 THEN src.rw_lock_ ELSE @]

GuardKinds == {"mutex", "spin", "rw", "null"}

\* a UnifiedLockGuard is constructed over primitive l; the mutex and the
\* shared_mutex are locked by the unique_lock handed in, the SpinLock by the
\* constructor itself
Construct(s, kind, l) ==
    /\ g[s] = Dead
    /\ built < MaxConstruct
    /\ \/ /\ kind = "mutex"
          /\ MutexCanLock(LS, l)
          /\ SetLS(MutexLock(LS, l))
          /\ g' = [g EXCEPT ![s] = UnifiedFromMutex(l)]
       \/ /\ kind = "spin"
          /\ SpinLock_CanLock(LS, l)
          /\ SetLS(SpinLock_lock(LS, l))
          /\ g' = [g EXCEPT ![s] = UnifiedFromSpin(l)]
       \/ /\ kind = "rw"
          /\ SharedCanLock(LS, l)
          /\ SetLS(SharedLock(LS, l))
          /\ g' = [g EXCEPT ![s] = UnifiedFromRW(l)]
       \/ /\ kind = "null"
          /\ g' = [g EXCEPT ![s] = UnifiedFromNull]
          /\ UNCHANGED lockvars
    /\ built' = built + 1
    /\ UNCHANGED <<container, policy, dtor_resets, threadvars, moves>>

\* UnifiedLockGuard d(std::move(s))
MoveConstruct(d, s) ==
    /\ g[d] = Dead
    /\ g[s] # Dead
    /\ moves < MaxMoves
    /\ g' = [g EXCEPT ![d] = MoveCtorDst(g[s]), ![s] = ClearSource(MovedOut(g[s]))]
    /\ moves' = moves + 1
    /\ UNCHANGED <<container, policy, dtor_resets, lockvars, threadvars, built>>

\* d = std::move(s)
MoveAssign(d, s) ==
    /\ g[d] # Dead
    /\ g[s] # Dead
    /\ moves < MaxMoves
    /\ IF d = s
       THEN UNCHANGED <<lockvars, g, moves>>
       ELSE /\ SetLS(MoveAssignLocks(LS, g[d], g[s]))
            /\ g' = [g EXCEPT ![d] = MoveAssignDst(g[d], g[s]),
                              ![s] = ClearSource(MovedOut(g[s]))]
            /\ moves' = moves + 1
    /\ UNCHANGED <<container, policy, dtor_resets, threadvars, built>>

\* the object in slot s goes out of scope
Destroy(s) ==
    /\ g[s] # Dead
    /\ SetLS(GuardDtor(LS, g[s]))
    /\ g' = [g EXCEPT ![s] = Dead]
    /\ UNCHANGED <<container, policy, dtor_resets, threadvars, built, moves>>

InitGuard ==
    /\ policy = "Mutex"
    /\ dtor_resets \in BOOLEAN
    /\ data_ = <<>>
    /\ container = "vector"
    /\ InitLocks /\ InitThreads /\ InitGuards

NextGuard ==
    \/ \E s \in Slots, kind \in GuardKinds, l \in Locks : Construct(s, kind, l)
    \/ \E d, s \in Slots : MoveConstruct(d, s)
    \/ \E d, s \in Slots : MoveAssign(d, s)
    \/ \E s \in Slots : Destroy(s)

\* any sequence of constructions, moves and destructions
SpecGuard == InitGuard /\ [][NextGuard]_vars

\* moves only into destinations that hold nothing: new objects, empty
\* guards and moved-from guards
NextChain ==
    \/ \E s \in Slots, kind \in GuardKinds, l \in Locks : Construct(s, kind, l)
    \/ \E d, s \in Slots : MoveConstruct(d, s)
    \/ \E d, s \in Slots : Payload(g[d]) = NoPayload /\ MoveAssign(d, s)
    \/ \E s \in Slots : Destroy(s)

SpecChain == InitGuard /\ [][NextChain]_vars

\* guards constructed from a SpinLock reference, or holding nothing, under
\* any sequence of moves, move assignments and destructions
SpinGuardKinds == {"spin", "null"}

NextSpinGuard ==
    \/ \E s \in Slots, kind \in SpinGuardKinds, l \in Locks : Construct(s, kind, l)
    \/ \E d, s \in Slots : MoveConstruct(d, s)
    \/ \E d, s \in Slots : MoveAssign(d, s)
    \/ \E s \in Slots : Destroy(s)

SpecSpinGuard == InitGuard /\ [][NextSpinGuard]_vars

\* ------------------------------------------------ SpinLockGuard objects
\* class SpinLockGuard: `SpinLock& lock_; bool owns_lock_`.  The reference
\* member designates the same SpinLock for the whole life of the object.
SpinLockGuardObj(l, owns) == [cls |-> "SpinLockGuard", lock_ |-> l, owns_lock_ |-> owns]

IsSpinLockGuard(s) == g[s].cls = "SpinLockGuard"

\* ~SpinLockGuard on the lock state ls
SpinLockGuard_dtor(ls, gd) ==
    IF gd.owns_lock_ THEN SpinLock_unlock(ls, gd.lock_) ELSE ls

\* explicit SpinLockGuard(SpinLock& lock): lock_.lock() returns once the
\* flag was clear
SpinLockGuard_ctor(s, l) ==
    /\ g[s].cls = "dead"
    /\ built < MaxConstruct
    /\ SpinLock_CanLock(LS, l)
    /\ SetLS(SpinLock_lock(LS, l))
    /\ g' = [g EXCEPT ![s] = SpinLockGuardObj(l, TRUE)]
    /\ built' = built + 1
    /\ UNCHANGED <<container, policy, dtor_resets, threadvars, moves>>

\* SpinLockGuard d(std::move(s))
SpinLockGuard_move(d, s) ==
    /\ g[d].cls = "dead"
    /\ IsSpinLockGuard(s)
    /\ moves < MaxMoves
    /\ g' = [g EXCEPT ![d] = SpinLockGuardObj(g[s].lock_, g[s].owns_lock_),
                      ![s] = [@ EXCEPT !.owns_lock_ = FALSE]]
    /\ moves' = moves + 1
    /\ UNCHANGED <<container, policy, dtor_resets, lockvars, threadvars, built>>

\* d = std::move(s): when this != &other, unlock what d owns and take over
\* the flag owns_lock_ of s; lock_ of d, a reference, stays what it was
SpinLockGuard_assign(d, s) ==
    /\ IsSpinLockGuard(d)
    /\ IsSpinLockGuard(s)
    /\ moves < MaxMoves
    /\ IF d = s
       THEN UNCHANGED <<lockvars, g>>
       ELSE /\ SetLS(SpinLockGuard_dtor(LS, g[d]))
            /\ g' = [g EXCEPT ![d] = [@ EXCEPT !.owns_lock_ = g[s].owns_lock_],
                              ![s] = [@ EXCEPT !.owns_lock_ = FALSE]]
    /\ moves' = moves + 1
    /\ UNCHANGED <<container, policy, dtor_resets, threadvars, built>>

\* the SpinLockGuard in slot s goes out of scope
SpinLockGuard_destroy(s) ==
    /\ IsSpinLockGuard(s)
    /\ SetLS(SpinLockGuard_dtor(LS, g[s]))
    /\ g' = [g EXCEPT ![s] = Dead]
    /\ UNCHANGED <<container, policy, dtor_resets, threadvars, built, moves>>

InitSpinLockGuard ==
    /\ policy = "SpinLock"
    /\ dtor_resets = TRUE
    /\ data_ = <<>>
    /\ container = "vector"
    /\ InitLocks /\ InitThreads /\ InitGuards

NextSpinLockGuard ==
    \/ \E s \in Slots, l \in Locks : SpinLockGuard_ctor(s, l)
    \/ \E d, s \in Slots : SpinLockGuard_move(d, s)
    \/ \E d, s \in Slots : SpinLockGuard_assign(d, s)
    \/ \E s \in Slots : SpinLockGuard_destroy(s)

\* any sequence of constructions, moves and destructions of SpinLockGuards
SpecSpinLockGuard == InitSpinLockGuard /\ [][NextSpinLockGuard]_vars

\* ------------------------------------------------------------ vocabulary
\* LockGuard::LockGuard, variant: a std::mutex whatever the policy
LockGuard_ctor_Mut(p) == {"mutex_"}

\* LockGuard::LockGuard(policy): the members the constructor fills with
\* make_unique; the others stay null
LockGuard_ctor(p) ==
    IF p = "Mutex" THEN {"mutex_"}
    ELSE IF p = "SpinLock" THEN {"spinlock_"}
    ELSE IF p = "ReadWrite" THEN {"shared_mutex_"}
    ELSE {}

\* the member of LockGuard that a primitive of kind k is reached through
MemberOf(k) ==
    IF k = "mutex" THEN "mutex_"
    ELSE IF k = "spin" THEN "spinlock_"
    ELSE "shared_mutex_"

\* thread t is between the return of its acquisition and ~guard
Live(t) == guard[t].cls # "none"

WriterKind == WriteMethods \cup
              {"LockGuard::write_lock", "LockGuard::lock", "LockGuard::unique_lock_rw"}
ReaderKind == ReadMethods \cup {"LockGuard::read_lock"}

\* the live guard of t came from a write-side / a read-side acquisition
WriterLive(t) == Live(t) /\ cur[t].m \in WriterKind
ReaderLive(t) == Live(t) /\ cur[t].m \in ReaderKind

\* no primitive of the container's Lock Holder is held
HolderFree ==
    /\ ~mutex_[lock_guard_]
    /\ ~flag_[lock_guard_]
    /\ shared_mutex_[lock_guard_] = [writer |-> FALSE, readers |-> 0]

ReadSideCalls == {"LockGuard::read_lock", "LockGuard::unique_lock_rw"}

\* ------------------------------------------------------------------ claims

\* C1: under the Mutex and SpinLock policies at most one thread is inside a
\* protected operation of the container at any time.
C1_MutualExclusion ==
    policy \in {"Mutex", "SpinLock"} =>
        Cardinality({t \in Threads : Live(t)}) <= 1

\* C1 witness: one thread is writing under the spin lock while another
\* thread waits in its acquisition.
C1_Witness ==
    /\ policy = "SpinLock"
    /\ \E t, u \in Threads :
         /\ t # u
         /\ pc[t] = "write"
         /\ pc[u] = "acquire"
         /\ flag_[lock_guard_]

\* all threads have finished all their push_back calls
PushDone == \A t \in Threads : pc[t] = "idle" /\ ops[t] = MaxOps

\* the number of positions of d that hold v
Occurrences(d, v) == Cardinality({i \in 1..Len(d) : d[i] = v})

\* C2: after N threads each made M push_back calls under a locking policy
\* the container holds exactly N*M elements, each appended value once.
C2_NoLostUpdates ==
    (policy # "LockFree" /\ PushDone) =>
        /\ Len(data_) = NumThreads * MaxOps
        /\ \A t \in Threads : \A k \in 1..MaxOps :
             Occurrences(data_, PushValue(t, k)) = 1

\* C2 witness: all pushes are done under the reader/writer policy and the
\* appends of the threads are interleaved.
C2_Witness ==
    /\ policy = "ReadWrite"
    /\ PushDone
    /\ Len(data_) = NumThreads * MaxOps
    /\ data_[1] = PushValue(1, 1)
    /\ data_[2] = PushValue(2, 1)

\* C3: under ReadWrite either no writer-mode guard is live, or exactly one
\* is and no reader-mode guard is.
C3_RWExclusive ==
    policy = "ReadWrite" =>
        LET W == {t \in Threads : WriterLive(t)}
            R == {t \in Threads : ReaderLive(t)}
        IN \/ Cardinality(W) = 0
           \/ Cardinality(W) = 1 /\ Cardinality(R) = 0

\* C3 witness: a writer is inside the container while a reader waits.
C3_Witness ==
    /\ policy = "ReadWrite"
    /\ \E t, u \in Threads :
         /\ WriterLive(t) /\ pc[t] = "write"
         /\ pc[u] = "acquire" /\ cur[u].m \in ReadMethods

\* C4: under ReadWrite a read-side acquisition does not wait for a live
\* reader guard: it can return while another reader guard is live.
C4_ReadersShare ==
    policy = "ReadWrite" =>
        \A t, u \in Threads :
            (t # u /\ pc[t] = "acquire" /\ cur[t].m \in ReadMethods /\ ReaderLive(u))
                => ENABLED Acquire(t)

\* C4 witness: two reader guards from acquire_read_guard() are live at once.
C4_Witness ==
    /\ policy = "ReadWrite"
    /\ \E t, u \in Threads :
         /\ t # u
         /\ ReaderLive(t) /\ cur[t].m = "acquire_read_guard"
         /\ ReaderLive(u) /\ cur[u].m = "acquire_read_guard"
         /\ shared_mutex_[lock_guard_].readers = 2

\* C5: under Mutex and SpinLock a read-side operation holds the same
\* exclusive lock as a write-side one, so it overlaps no other operation.
C5_ReadIsExclusive ==
    policy \in {"Mutex", "SpinLock"} =>
        \A t \in Threads :
            ReaderLive(t) =>
                /\ guard[t] = IF policy = "Mutex" THEN UnifiedFromMutex(lock_guard_)
                              ELSE UnifiedFromSpin(lock_guard_)
                /\ \A u \in Threads \ {t} : ~ReaderLive(u) /\ ~WriterLive(u)

\* C5 witness: under Mutex a reader is inside size() holding the mutex while
\* another reader waits.
C5_Witness ==
    /\ policy = "Mutex"
    /\ \E t, u \in Threads :
         /\ t # u
         /\ ReaderLive(t) /\ cur[t].m = "size" /\ mutex_[lock_guard_]
         /\ pc[u] = "acquire" /\ cur[u].m \in ReadMethods

\* is primitive k locked
Locked(k) ==
    IF k[1] = "mutex" THEN mutex_[k[2]]
    ELSE IF k[1] = "spin" THEN flag_[k[2]]
    ELSE IF k[1] = "rw" THEN shared_mutex_[k[2]].writer
    ELSE shared_mutex_[k[2]].readers > 0

\* the guard objects whose payload is primitive k
Holders(k) == {s \in Slots : Payload(g[s]) = k}

\* C6: through any chain of moves into new, empty or moved-from guards a
\* lock has exactly one holder until that holder is destroyed, and is then
\* released exactly once: releases never exceed acquisitions, the lock is
\* held exactly while a guard holds it, and once every guard is destroyed
\* each acquisition has been released once.
C6_ExactlyOnce ==
    \A k \in Prims :
        /\ Cardinality(Holders(k)) <= 1
        /\ acquired[k] - released[k] = Cardinality(Holders(k))
        /\ Locked(k) <=> Holders(k) # {}
        /\ (\A s \in Slots : g[s] = Dead) => released[k] = acquired[k]

\* C6 witness: the one guard constructed, a mutex guard, went through two
\* moves, every guard object has been destroyed, and the mutex was locked
\* once and unlocked once.
C6_Witness ==
    /\ \A s \in Slots : g[s] = Dead
    /\ built = 1
    /\ moves = 2
    /\ acquired[<<"mutex", 1>>] = 1
    /\ released[<<"mutex", 1>>] = 1
    /\ ~mutex_[1]

\* the number of unlock calls on k a step makes
Unlocks(k) == released'[k] - released[k]

\* C7: a move assignment onto a guard holding A from a guard holding B
\* releases A exactly once and nothing else, leaves B in the destination
\* and nothing in the source; destroying a guard releases exactly its
\* payload, once; a self move assignment releases nothing.
C7_OverwriteByMove ==
    [][/\ \A d, s \in Slots :
            MoveAssign(d, s) =>
                IF d = s THEN UNCHANGED <<lockvars, g>>
                ELSE (Payload(g[d]) # NoPayload /\ Payload(g[s]) # NoPayload) =>
                        /\ \A k \in Prims :
                              Unlocks(k) = IF k = Payload(g[d]) THEN 1 ELSE 0
                        /\ Payload(g'[d]) = Payload(g[s])
                        /\ Payload(g'[s]) = NoPayload
       /\ \A s \in Slots :
            Destroy(s) =>
                \A k \in Prims : Unlocks(k) = IF k = Payload(g[s]) THEN 1 ELSE 0
      ]_vars

\* C8: after an operation ended by throwing std::out_of_range its guard is
\* gone; when no other guard is live the lock is free and a waiting
\* acquisition can proceed.
C8_ThrowReleases ==
    \A t \in Threads :
        (pc[t] = "idle" /\ result[t].status = "out_of_range") =>
            /\ guard[t] = NoGuard
            /\ (\A u \in Threads : ~Live(u)) =>
                 /\ HolderFree
                 /\ \A u \in Threads : pc[u] = "acquire" => ENABLED Acquire(u)

\* C8 witness: under Mutex thread t's operation threw and afterwards another
\* thread is inside its own protected operation.
C8_Witness ==
    /\ policy = "Mutex"
    /\ \E t, u \in Threads :
         /\ t # u
         /\ pc[t] = "idle" /\ result[t].status = "out_of_range"
         /\ pc[u] = "body" /\ ops[u] = 1 /\ ops[t] = 1

\* C9: read_lock() / unique_lock_rw() under Mutex, SpinLock or LockFree
\* raise std::logic_error on every call, never wait, and change no lock.
C9_ReadSideFaults ==
    /\ [](\A t \in Threads :
            (policy # "ReadWrite" /\ pc[t] = "acquire" /\ cur[t].m \in ReadSideCalls)
                => ENABLED Acquire(t))
    /\ [][\A t \in Threads :
            (policy # "ReadWrite" /\ pc[t] = "acquire" /\ cur[t].m \in ReadSideCalls
             /\ pc'[t] # pc[t])
                => /\ result'[t].status = "logic_error"
                   /\ pc'[t] = "idle"
                   /\ guard'[t] = NoGuard
                   /\ UNCHANGED lockvars]_vars

\* C9 witness: a read-side call faulted under Mutex while another thread
\* holds the mutex, which stays held.
C9_Witness ==
    /\ policy = "Mutex"
    /\ \E t, u \in Threads :
         /\ t # u
         /\ pc[t] = "idle" /\ result[t].status = "logic_error"
         /\ Live(u) /\ mutex_[lock_guard_]

\* C10 as stated: a fault is raised only by a read-side request on a policy
\* without a shared lock; write_lock() / lock() never fault.
C10_OnlyReadSideFaults ==
    [][\A t \in Threads :
         (pc[t] = "acquire" /\ result'[t].status = "logic_error")
            => (cur[t].m \in ReadSideCalls /\ policy # "ReadWrite")]_vars

\* C10 amended: a fault is raised only by read_lock() / unique_lock_rw()
\* on a policy other than ReadWrite, or by write_lock() / lock() of the Lock
\* Holder under ReadWrite; the mixin's acquisitions never fault.
C10_FaultsAmended ==
    [][\A t \in Threads :
         (pc[t] = "acquire" /\ result'[t].status = "logic_error")
            => \/ cur[t].m \in ReadSideCalls /\ policy # "ReadWrite"
               \/ cur[t].m \in {"LockGuard::write_lock", "LockGuard::lock"}
                  /\ policy = "ReadWrite"]_vars

\* C10 witness: under ReadWrite a write_lock() / lock() call of the Lock
\* Holder faulted while a mixin write acquisition returned its guard.
C10_Witness ==
    /\ policy = "ReadWrite"
    /\ \E t, u \in Threads :
         /\ t # u
         /\ pc[t] = "idle" /\ result[t].status = "logic_error"
         /\ cur[u].m = "acquire_write_guard" /\ guard[u] = UniqueRW(lock_guard_)

\* C11: under LockFree write_lock() / lock() returns an empty guard at once,
\* whatever guards are live; any number of them are live together; neither
\* acquiring nor destroying them touches a lock primitive.
C11_NullGuards ==
    /\ [](policy = "LockFree" =>
            /\ \A t \in Threads :
                 (pc[t] = "acquire" /\ cur[t].m \notin ReadSideCalls)
                    => ENABLED Acquire(t)
            /\ HolderFree
            /\ \A k \in Prims : acquired[k] = 0 /\ released[k] = 0)
    /\ [][\A t \in Threads :
            (policy = "LockFree" /\ pc[t] = "acquire"
             /\ cur[t].m \notin ReadSideCalls /\ pc'[t] # pc[t])
                => /\ guard'[t] = UnifiedFromNull
                   /\ pc'[t] = "body"
                   /\ UNCHANGED lockvars]_vars

\* C11 witness: under LockFree one empty guard has been destroyed and two
\* more from write_lock() / lock() are live together.
C11_Witness ==
    /\ policy = "LockFree"
    /\ \E t, u \in Threads :
         /\ t # u
         /\ guard[t] = UnifiedFromNull /\ cur[t].m = "LockGuard::write_lock"
         /\ guard[u] = UnifiedFromNull /\ cur[u].m = "LockGuard::lock"

\* thread t has made the first raw operation of its lock scope and not yet
\* the last
MidBatch(t) == cur[t].m \in ScopeMethods /\ 0 < step[t] /\ step[t] < BatchLen

\* every batch is in d as a whole or not at all
Whole(d) ==
    \A t \in Threads : \A o \in 1..MaxOps :
        LET K == {k \in 1..BatchLen : Occurrences(d, BatchValue(t, o, k)) > 0}
        IN K = {} \/ K = 1..BatchLen

\* C12: under a locking policy with_write_lock takes the lock once before
\* the callback and releases it once after: while the callback is between
\* its first and last unsafe_* operation no protected operation of another
\* thread is inside the container, the callback's steps touch no lock, and
\* a size() that returned counted every batch entirely or not at all.
C12_BatchAtomic ==
    /\ [](policy # "LockFree" =>
            /\ \A t \in Threads :
                 (cur[t].m = "with_write_lock" /\ MidBatch(t)) =>
                     \A u \in Threads \ {t} :
                         cur[u].m \notin UnsafeMethods => pc[u] \in {"idle", "acquire"}
            /\ \A u \in Threads :
                 (cur[u].m = "size" /\ pc[u] = "release") =>
                     /\ result[u].val = Len(data_)
                     /\ Whole(data_))
    /\ [][\A t \in Threads :
            (policy # "LockFree" /\ cur[t].m = "with_write_lock"
             /\ pc[t] \in {"body", "write"} /\ pc'[t] # pc[t])
                => UNCHANGED lockvars]_vars

\* C12 witness: under ReadWrite a callback is between its two
\* unsafe_push_back calls while a size() of another thread waits.
C12_Witness ==
    /\ policy = "ReadWrite"
    /\ \E t, u \in Threads :
         /\ t # u
         /\ cur[t].m = "with_write_lock" /\ MidBatch(t)
         /\ Occurrences(data_, BatchValue(t, ops[t], 1)) = 1
         /\ cur[u].m = "size" /\ pc[u] = "acquire"

\* C13: under a locking policy, while the guard of acquire_write_guard() is
\* live no protected operation of another thread is inside the container
\* and none can start; the unsafe_* mutations made under the guard are all
\* in the container when the guard is destroyed, which frees the lock;
\* nothing removes them afterwards; and a later size() of the same thread is
\* not blocked by its own former guard and returns the size of the
\* container that holds them.
C13_GuardScope ==
    /\ [](policy # "LockFree" =>
            /\ \A t \in Threads :
                 (cur[t].m = "acquire_write_guard; unsafe_push_back" /\ Live(t)) =>
                     \A u \in Threads \ {t} :
                         /\ ~Live(u)
                         /\ (pc[u] = "acquire" => ~ENABLED Acquire(u))
            /\ \A t \in Threads :
                 (cur[t].m = "size" /\ pc[t] = "acquire"
                  /\ \A u \in Threads \ {t} : ~Live(u)) => ENABLED Acquire(t)
            /\ \A t \in Threads :
                 (cur[t].m = "size" /\ pc[t] = "release") =>
                     result[t] = [status |-> "ok", val |-> Len(data_)])
    /\ [][policy # "LockFree" =>
            /\ \A t \in Threads :
                 (cur[t].m = "acquire_write_guard; unsafe_push_back" /\ pc[t] = "release"
                  /\ pc'[t] = "idle") =>
                     /\ \A k \in 1..BatchLen :
                           Occurrences(data_', BatchValue(t, ops[t], k)) = 1
                     /\ HolderFree'
            /\ Len(data_') >= Len(data_)
            /\ \A i \in 1..Len(data_) : data_'[i] = data_[i]]_vars

\* C13 witness: under Mutex a thread made its unsafe_push_back calls under
\* the guard of acquire_write_guard(), destroyed the guard, and its size()
\* then returned the size of the container holding both values.
C13_Witness ==
    /\ policy = "Mutex"
    /\ \E t \in Threads :
         /\ ops[t] = 2
         /\ cur[t].m = "size" /\ pc[t] = "release"
         /\ result[t].val = Len(data_)
         /\ \A k \in 1..BatchLen : Occurrences(data_, BatchValue(t, 1, k)) = 1
         /\ \A u \in Threads \ {t} : ops[u] = 0

\* C14: the unsafe_* helpers take no lock: a call of unsafe_size() outside
\* any scope goes straight to its body and can always proceed and return,
\* whoever holds the container's guard; the unsafe_push_back calls inside a
\* scope can always proceed too; and no step of either changes the state of
\* a lock primitive.
C14_UnsafeTakesNoLock ==
    /\ [](\A t \in Threads :
            /\ (cur[t].m \in UnsafeMethods) =>
                  /\ guard[t] = NoGuard
                  /\ pc[t] \in {"body", "release"}
                  /\ pc[t] = "body" => ENABLED Body(t)
                  /\ pc[t] = "release" => ENABLED Release(t)
            /\ (cur[t].m \in ScopeMethods /\ pc[t] = "body") => ENABLED Body(t)
            /\ (cur[t].m \in ScopeMethods /\ pc[t] = "write") => ENABLED Write(t))
    /\ [][\A t \in Threads :
            /\ (cur'[t].m \in UnsafeMethods /\ pc'[t] # pc[t]) => UNCHANGED lockvars
            /\ (cur[t].m \in UnsafeMethods /\ pc'[t] # pc[t]) => UNCHANGED lockvars
            /\ (cur[t].m \in ScopeMethods /\ pc[t] \in {"body", "write"}
                 /\ pc'[t] # pc[t]) => UNCHANGED lockvars]_vars

\* C14 witness: under Mutex unsafe_size() returned to its caller while
\* another thread holds the guard of acquire_write_guard(), mid-batch.
C14_Witness ==
    /\ policy = "Mutex"
    /\ \E t, u \in Threads :
         /\ t # u
         /\ cur[t].m = "unsafe_size" /\ pc[t] = "release"
         /\ result[t].status = "ok"
         /\ cur[u].m = "acquire_write_guard; unsafe_push_back" /\ MidBatch(u)
         /\ mutex_[lock_guard_]

\* thread t is inside a read helper, holding the guard it acquired
InHelper(t) == cur[t].m \in ReadHelpers /\ Live(t)

\* C15: under a locking policy a read helper holds the read lock from before
\* its first element access until after its last: no step changes the
\* container while a helper is inside it, so copy() returned the contents
\* of one instant and for_each visited exactly the elements of that instant.
C15_HelperHoldsLock ==
    /\ [](policy # "LockFree" =>
            \A t \in Threads :
                /\ (InHelper(t) /\ pc[t] = "body") =>
                      \A u \in Threads \ {t} : pc[u] # "write"
                /\ (InHelper(t) /\ cur[t].m \in {"copy", "for_each"}) =>
                      snap[t] = SubSeq(data_, 1, step[t])
                /\ (InHelper(t) /\ cur[t].m \in {"copy", "for_each"}
                     /\ pc[t] = "release") => snap[t] = data_)
    /\ [][policy # "LockFree" =>
            ((\E t \in Threads : InHelper(t)) => data_' = data_)]_vars

\* C15 witness: under SpinLock copy() returned both elements of a container
\* that a set() of another thread, now waiting, is about to change.
C15_Witness ==
    /\ policy = "SpinLock"
    /\ \E t, u \in Threads :
         /\ t # u
         /\ cur[t].m = "copy" /\ pc[t] = "release"
         /\ snap[t] = data_ /\ Len(data_) = 2
         /\ cur[u].m = "set" /\ pc[u] = "acquire"

\* the result of a helper, stated on the contents d
Expected(op, d) ==
    IF op.m = "contains" THEN (IF \E i \in 1..Len(d) : d[i] = op.v THEN 1 ELSE 0)
    ELSE IF op.m = "count" THEN Occurrences(d, op.v)
    ELSE 0

\* C16: under ReadWrite, however many readers run them at once, contains(v)
\* and count(v) return what holds of the container's contents and copy()
\* returns those contents, so that simultaneous and repeated calls agree.
C16_ReadersAgree ==
    policy = "ReadWrite" =>
        /\ \A t \in Threads :
             (cur[t].m \in {"contains", "count", "copy"} /\ pc[t] = "release") =>
                 /\ result[t] = [status |-> "ok", val |-> Expected(cur[t], data_)]
                 /\ cur[t].m = "copy" => snap[t] = data_
        /\ \A t, u \in Threads :
             (pc[t] = "release" /\ pc[u] = "release" /\ cur[t] = cur[u]
              /\ cur[t].m \in {"contains", "count", "copy"}) =>
                 /\ result[t] = result[u]
                 /\ snap[t] = snap[u]

\* C16 witness: under ReadWrite two readers are at the end of count() at
\* once, each having counted the two matching elements.
C16_Witness ==
    /\ policy = "ReadWrite"
    /\ \E t, u \in Threads :
         /\ t # u
         /\ cur[t].m = "count" /\ pc[t] = "release" /\ result[t].val = 2
         /\ cur[u].m = "count" /\ pc[u] = "release" /\ result[u].val = 2
         /\ shared_mutex_[lock_guard_].readers = 2

\* thread t is copying from the shared container, inside its constructor
\* or assignment operator
Copying(t) == cur[t].m \in CopyMethods /\ Live(t)

\* C17: copy construction and copy assignment from `other` are protected by
\* a lock against the protected mutations of `other`: while the copy reads
\* `other` no thread is in the middle of a mutation of it, and what has been
\* copied is what `other` holds, so the result is the contents of one
\* instant.
C17_CopyProtected ==
    policy # "LockFree" =>
        \A t \in Threads :
            Copying(t) =>
                /\ \A u \in Threads \ {t} : pc[u] # "write"
                /\ snap[t] = SubSeq(data_, 1, step[t])

\* C18: the store of `vec[i] = v` through the reference operator[]
\* returned happens while the container's lock is held by the storing
\* thread, and so never while another thread is inside a protected
\* operation of the container.
C18_ElementAccessLocked ==
    policy # "LockFree" =>
        \A t \in Threads :
            pc[t] = "store" =>
                /\ Live(t)
                /\ \A u \in Threads \ {t} : ~Live(u)

\* the calls the claim says fail, on contents d
Fails(op, d) ==
    \/ op.m \in {"get", "get_const", "set"} /\ op.pos >= Len(d)
    \/ op.m \in {"pop_back", "front", "back"} /\ Len(d) = 0

\* thread t holds the lock inside a call that fails or has failed
Failing(t) ==
    /\ Live(t)
    /\ \/ pc[t] = "body" /\ Fails(cur[t], data_)
       \/ result[t].status = "out_of_range"

ActivePayloads(gd) ==
    {k \in Prims :
        \/ k[1] = "mutex" /\ gd.mutex_lock_.owns /\ gd.mutex_lock_.dev = k[2]
        \/ k[1] = "spin" /\ gd.spinlock_ = k[2]
        \/ k[1] = "rw" /\ gd.rw_lock_.owns /\ gd.rw_lock_.dev = k[2]}

\* C20: every UnifiedLockGuard holds at most one payload, the one its tag
\* designates, and a moved-from guard holds none.
C20_OnePayload ==
    \A s \in Slots :
        g[s] # Dead =>
            /\ Cardinality(ActivePayloads(g[s])) <= 1
            /\ ActivePayloads(g[s]) = {Payload(g[s])} \ {NoPayload}
            /\ g[s].lock_type_ = -1 => ActivePayloads(g[s]) = {}

\* some thread that is inside a call can take a step
CanStep == \E t \in Threads : ENABLED (Acquire(t) \/ Body(t) \/ Write(t) \/ Release(t))

\* C21: with threads that make only non-nested protected operations on a
\* container with a locking policy, no reachable state is a deadlock (while
\* a call is in progress some thread can step), and under fair scheduling
\* every acquisition eventually returns.
C21_Progress ==
    /\ []((\E t \in Threads : pc[t] # "idle") => CanStep)
    /\ \A t \in Threads : (pc[t] = "acquire") ~> (pc[t] = "body")

\* C21 witness: under SpinLock one thread has finished its operation and
\* released the lock, and the other, which called second, has acquired it.
C21_Witness ==
    /\ policy = "SpinLock"
    /\ \E t, u \in Threads :
         /\ t # u
         /\ pc[u] = "idle" /\ result[u].status = "ok"
         /\ Live(t) /\ pc[t] = "body" /\ flag_[lock_guard_]
         /\ acquired[<<"spin", lock_guard_>>] = 2
         /\ released[<<"spin", lock_guard_>>] = 1

\* thread t is inside a call it made from its own scope on the same container
\* while one of the two guards is exclusive
Reentered(t) ==
    /\ pc[t] = "nested"
    /\ \/ policy \in {"Mutex", "SpinLock"}
       \/ guard[t].rw_lock_.owns
       \/ Acquisition(cur[t].inner, policy) = "unique_rw"

\* the guard t holds is the writer-mode guard of the shared_mutex
HeldWriterRW(t) == policy = "ReadWrite" /\ guard[t].rw_lock_.owns

SecondLock(t) == pc[t] = "spin" /\ step[t] > 0

\* C23: a thread that calls SpinLock::lock() a second time without an
\* intervening unlock() stays inside that call for ever: the call can never
\* return, and no step reports anything to the thread.
C23_NotReentrant ==
    /\ [](\A t \in Contenders : SecondLock(t) => ~ENABLED LockReturn(t))
    /\ [][\A t \in Contenders :
            SecondLock(t) => (SecondLock(t)' /\ result'[t] = result[t])]_vars

\* C23 witness: a thread spins in its second lock() on the flag it set
\* itself, and another thread spins in its first.
C23_Witness ==
    \E t, u \in Contenders :
        /\ t # u
        /\ SecondLock(t)
        /\ flag_[Contended]
        /\ pc[u] = "spin" /\ step[u] = 0

\* C24: with three or more threads locking and unlocking one SpinLock there
\* are weakly fair behaviours in which one thread's lock() never returns:
\* when the scheduler always lets another contender's test_and_set come
\* first, the victim stays in lock() for ever, its acquisition is disabled
\* again and again (so weak fairness does not oblige it to happen), and every
\* other contender acquires and releases infinitely often.
C24_Starvation ==
    /\ <>[](pc[Victim] = "spin")
    /\ []<>(~ENABLED LockReturn(Victim))
    /\ []<>(pc[Victim] = "spin" /\ ENABLED LockReturn(Victim))
    /\ \A t \in Contenders \ {Victim} :
         /\ []<>(step[t] > 0)
         /\ []<>(step[t] = 0)

\* C24 witness: the victim is inside lock(), the flag is clear, and another
\* contender is inside lock() as well, about to win the flag once more.
C24_Witness ==
    /\ Cardinality(Contenders) >= 3
    /\ pc[Victim] = "spin"
    /\ ~flag_[Contended]
    /\ \E t \in Contenders \ {Victim} : pc[t] = "spin" /\ result[t].val = 1

\* C25: try_lock() is one step that never waits: it returns true exactly
\* when the flag was clear and then leaves the flag as a successful lock()
\* does, it returns false exactly when the flag was set and then leaves the
\* flag set and every thread's ownership as it was.
C25_TryLock ==
    /\ [](\A t \in Contenders : pc[t] = "idle" => ENABLED TryLock(t))
    /\ [][\A t \in Contenders :
            TryLock(t) =>
               /\ pc'[t] = "idle"
               /\ result'[t].status = "ok"
               /\ (result'[t].val = 1) <=> ~flag_[Contended]
               /\ (result'[t].val = 0) <=> flag_[Contended]
               /\ flag_'[Contended]
               /\ ~flag_[Contended] =>
                     /\ flag_' = SpinLock_lock(LS, Contended).flag_
                     /\ step'[t] = step[t] + 1
               /\ flag_[Contended] => step' = step
               /\ \A u \in Contenders \ {t} : step'[u] = step[u]]_vars

\* C25 witness: one thread owns the lock through a try_lock() that returned
\* true, and another thread's try_lock() has returned false.
C25_Witness ==
    \E t, u \in Contenders :
        /\ t # u
        /\ step[u] = 1 /\ result[u] = [status |-> "ok", val |-> 1]
        /\ step[t] = 0 /\ result[t] = [status |-> "ok", val |-> 0]
        /\ flag_[Contended]

\* the guard objects that hold SpinLock l
SpinHolders(l) == Holders(<<"spin", l>>)

OnContainer(m) == IF m \in CopyMethods THEN "copy" ELSE "shared"

\* C28: every container has its own Lock Holder, that of a copy included:
\* the guards live on one container leave the primitives of the other free,
\* so an operation can always take its guard when no other thread is inside
\* an operation of the same container.
C28_PerInstance ==
    /\ this_lock_guard_ # lock_guard_
    /\ (\A u \in Threads : Live(u) => OnContainer(cur[u].m) = "copy") => HolderFree
    /\ \A t \in Threads :
         (/\ pc[t] = "acquire"
          /\ \A u \in Threads \ {t} :
                Live(u) => OnContainer(cur[u].m) # OnContainer(cur[t].m))
         => ENABLED Acquire(t)

\* C28 witness: under Mutex one thread holds the guard of the copy while
\* another holds the guard of the shared container.
C28_Witness ==
    /\ policy = "Mutex"
    /\ \E t, u \in Threads :
         /\ Copying(t)
         /\ Live(u) /\ OnContainer(cur[u].m) = "shared"
         /\ mutex_[this_lock_guard_] /\ mutex_[lock_guard_]

\* the step is one of thread t
Moved(t) ==
    <<pc[t], cur[t], guard[t], snap[t], result[t], ops[t], step[t]>>' #
    <<pc[t], cur[t], guard[t], snap[t], result[t], ops[t], step[t]>>

\* C29: no step of the synchronization layer changes the container: not the
\* acquisition or the release of any guard, whatever the method, and no step
\* of acquire_write_guard, acquire_read_guard, size, contains, count, copy,
\* find_if or for_each.
C29_LayerKeepsContents ==
    [][\A t \in Threads :
          (/\ Moved(t)
           /\ \/ pc[t] \in {"idle", "acquire", "release"}
              \/ cur[t].m \in FrameMethods)
          => data_' = data_]_vars

\* C29 witness: a for_each has visited a whole container of two elements
\* and returned, after another thread had acquired and released a guard, and
\* the container is as it was built.
C29_Witness ==
    /\ data_ = <<Filler, Filler>>
    /\ \E t, u \in Threads :
         /\ t # u
         /\ cur[t].m = "for_each" /\ pc[t] = "release" /\ step[t] = 2
         /\ pc[u] = "idle" /\ ops[u] > 0
         /\ \E k \in Prims : released[k] > 0

\* the observer's get(0) has raised std::out_of_range
GetFailed ==
    /\ cur[Observer].m = "get"
    /\ pc[Observer] = "release"
    /\ result[Observer].status = "out_of_range"

\* C30: each operation is atomic and the pair is not: size() returns the
\* length the vector has at that moment, get(0) is called only after size()
\* returned 1, and when it nevertheless raises std::out_of_range the vector
\* is empty under the observer's own guard because another thread's pop_back
\* was completed after the size() call read the vector.
C30_PairNotAtomic ==
    /\ [](cur[Observer].m = "get" => ops[Observer] = 2)
    /\ [](GetFailed =>
            /\ Live(Observer)
            /\ data_ = <<>>
            /\ \E u \in Threads \ {Observer} : ops[u] > 0 /\ pc[u] \in {"idle", "acquire"})
    /\ [][/\ (cur[Observer].m = "size" /\ pc[Observer] = "body" /\ pc'[Observer] = "release")
              => result'[Observer] = [status |-> "ok", val |-> Len(data_)]
          /\ (cur[Observer].m = "get" /\ pc[Observer] = "body" /\ pc'[Observer] = "release")
              => (result'[Observer].status = "out_of_range" <=> data_ = <<>>)
          /\ GetFailed => data_' = data_]_vars

\* C30 witness: under Mutex the observer saw size() == 1 and its get(0) then
\* raised std::out_of_range, the only other call made being one pop_back.
C30_Witness ==
    /\ policy = "Mutex"
    /\ GetFailed
    /\ data_ = <<>>
    /\ ops[Observer] = 2
    /\ \A u \in Threads \ {Observer} : pc[u] = "idle" /\ ops[u] <= 1
    /\ released[<<"mutex", lock_guard_>>] = 2

\* the elements of d
Range(d) == {d[i] : i \in 1..Len(d)}

\* all the keys the threads insert
AllKeys == {InsertKey(t, k) : t \in Threads, k \in 1..MaxOps}

\* C31: when every thread has made all its insertions under a locking policy
\* a shared set or unordered_set holds exactly the union of the inserted keys,
\* each once, an insertion of a key that is present changes nothing, and a
\* shared deque pushed at both ends holds as many elements as pushes were
\* made, each pushed value once.
C31_ConcurrentInsert ==
    /\ [](PushDone =>
            IF container = "deque"
            THEN /\ Len(data_) = NumThreads * MaxOps
                 /\ \A t \in Threads : \A k \in 1..MaxOps :
                       Occurrences(data_, PushValue(t, k)) = 1
            ELSE /\ Range(data_) = AllKeys
                 /\ Len(data_) = Cardinality(AllKeys))
    /\ [][\A t \in Threads :
            (/\ cur[t].m = "set::insert"
             /\ pc[t] = "write" /\ pc'[t] = "release"
             /\ cur[t].v \in Range(data_))
            => data_' = data_]_vars

\* C31 witness: under SpinLock all insertions into the set are done, a key
\* two threads both inserted is in it once, and fewer keys are held than
\* insertions were made.
C31_Witness ==
    /\ container = "set"
    /\ policy = "SpinLock"
    /\ PushDone
    /\ Occurrences(data_, InsertKey(1, 2)) = 1
    /\ InsertKey(1, 2) = InsertKey(2, 1)
    /\ Len(data_) < NumThreads * MaxOps

\* C32: after copy construction or copy assignment the destination holds
\* what the source holds and no step of the copy changes the source; move
\* construction hands the source's contents to the destination and leaves
\* the source empty, and the source can be used again: its lock is free, and
\* a size() after the move returns 0.
C32_CopyAndMove ==
    /\ [](/\ (cur[Copier].m \in CopyMethods /\ pc[Copier] = "release")
                => snap[Copier] = data_
          /\ (cur[Copier].m \in MoveMethods /\ pc[Copier] = "release")
                => (data_ = <<>> /\ snap[Copier] # <<>> /\ HolderFree)
          /\ (cur[Copier].m \in {"size", "push_back"} /\ pc[Copier] = "acquire")
                => ENABLED Acquire(Copier)
          /\ (cur[Copier].m = "size" /\ pc[Copier] = "release")
                => result[Copier] = [status |-> "ok", val |-> Len(data_)])
    /\ [][/\ cur[Copier].m \in CopyMethods => data_' = data_
          /\ (cur[Copier].m \in MoveMethods /\ pc[Copier] = "write" /\ pc'[Copier] = "release")
                => (snap'[Copier] = data_ /\ data_' = <<>>)]_vars

\* C32 witness: a vector of two elements was moved from, and the size() called
\* on it afterwards has returned 0.
C32_Witness ==
    /\ data_ = <<>>
    /\ ops[Copier] = 2
    /\ cur[Copier].m = "size"
    /\ pc[Copier] = "release"
    /\ result[Copier] = [status |-> "ok", val |-> 0]

\* the callback of t's scope has thrown and the scope is being left
Unwinding(t) ==
    /\ pc[t] = "release"
    /\ result[t].status = "callback_exception"

\* the number of unlock calls made so far on all primitives
TotalReleased ==
    released[<<"mutex", lock_guard_>>] + released[<<"spin", lock_guard_>>]
    + released[<<"rw", lock_guard_>>] + released[<<"rd", lock_guard_>>]

\* C33: when the callback of with_write_lock or with_read_lock throws, the
\* throw itself changes neither the container nor the lock, so what the
\* callback wrote before stays; leaving the scope releases the lock exactly
\* once and hands the exception to the caller; once every thread is back
\* every acquisition has been released, and an operation that waits for the
\* lock while no guard is live can take it.
C33_CallbackThrows ==
    /\ [](/\ (\A t \in Threads : pc[t] = "idle") =>
                (HolderFree /\ \A k \in Prims : acquired[k] = released[k])
          /\ \A t \in Threads :
                (pc[t] = "acquire" /\ \A u \in Threads : ~Live(u)) => ENABLED Acquire(t)
          /\ \A t \in Threads : Unwinding(t) => (Live(t) /\ ~HolderFree))
    /\ [][\A t \in Threads :
            /\ CallbackThrows(t) =>
                  (data_' = data_ /\ UNCHANGED lockvars /\ Unwinding(t)')
            /\ (Unwinding(t) /\ pc'[t] # pc[t]) =>
                  /\ pc'[t] = "idle"
                  /\ result'[t] = result[t]
                  /\ data_' = data_
                  /\ TotalReleased' = TotalReleased + 1
                  /\ ~Live(t)']_vars

\* C33 witness: under Mutex a with_write_lock callback threw after its first
\* unsafe_push_back; the element is in the vector, the caller has the
\* exception, and another thread has then completed a push_back.
C33_Witness ==
    /\ policy = "Mutex"
    /\ \E t, u \in Threads :
         /\ t # u
         /\ pc[t] = "idle" /\ result[t].status = "callback_exception"
         /\ pc[u] = "idle" /\ result[u].status = "ok"
         /\ Occurrences(data_, BatchValue(t, 1, 1)) = 1
         /\ Occurrences(data_, BatchValue(t, 1, 2)) = 0
         /\ data_[Len(data_)] = PushValue(u, 1)
    /\ acquired[<<"mutex", lock_guard_>>] = 2
    /\ released[<<"mutex", lock_guard_>>] = 2

\* the contents a call of op leaves behind on contents d
Outcome(op, d) == IF Throws(op, d) THEN d ELSE Effect(op, d)

\* C34: an unsafe_* mutator run under the caller's write guard leaves the
\* contents its locked counterpart would leave, whatever the contents were:
\* unsafe_insert as insert also on a present key, unsafe_pop_back /
\* unsafe_pop_front as pop_back / pop_front also on an empty list,
\* unsafe_push_back and unsafe_clear as push_back and clear.
C34_UnsafeAsLocked ==
    [][\A t \in Threads :
          (/\ cur[t].m \in UnsafeMutators
           /\ Live(t)
           /\ pc[t] = "write" /\ pc'[t] = "release")
          => data_' = Outcome([cur[t] EXCEPT !.m = Counterpart(@)], data_)]_vars

\* the deque operation op has nothing to act on in contents d
OutOfRange(op, d) ==
    \/ op.m \in {"deque::pop_back", "deque::pop_front"} /\ d = <<>>
    \/ op.m \in {"deque::set", "deque::get"} /\ op.pos >= Len(d)

\* C35: on a locking deque no operation raises; pop_back / pop_front on an
\* empty deque and set(index, v) with index >= size() leave the deque as it
\* was, get(index, d) with index >= size() hands d to the caller, and the
\* return of the operation releases the lock it took: once every thread is
\* back the lock is free and every acquisition has been released.
C35_DequeSilent ==
    /\ [](/\ \A t \in Threads : result[t].status \in {"none", "ok"}
          /\ (\A t \in Threads : pc[t] = "idle") =>
                (HolderFree /\ \A k \in Prims : acquired[k] = released[k]))
    /\ [][\A t \in Threads :
            /\ (pc[t] = "write" /\ pc'[t] = "release" /\ OutOfRange(cur[t], data_))
                  => data_' = data_
            /\ (pc[t] = "release" /\ pc'[t] = "idle") =>
                  /\ ~Live(t)'
                  /\ TotalReleased' = TotalReleased + 1
                  /\ data_' = data_
                  /\ (cur[t].m = "deque::get" /\ OutOfRange(cur[t], data_))
                        => result'[t] = [status |-> "ok", val |-> DefaultValue]]_vars

\* C35 witness: on a deque that is empty, one thread has come back from a
\* pop_back or pop_front and the other from get(index, d) with d in hand.
C35_Witness ==
    /\ data_ = <<>>
    /\ \A t \in Threads : pc[t] = "idle"
    /\ \E t, u \in Threads :
         /\ t # u
         /\ result[t] = [status |-> "ok", val |-> 0]
         /\ result[u] = [status |-> "ok", val |-> DefaultValue]
         /\ ops[t] > 0 /\ ops[u] > 0

\* C36: whatever constructions, moves and move assignments `a = std::move(b)`
\* of SpinLockGuards took place, on the same or on different SpinLocks and
\* with owning or moved-from guards, once every guard has been destroyed
\* each SpinLock has been unlocked once for every time a guard locked it, and
\* a SpinLock no guard locked has not been unlocked.
C36_AssignTransfers ==
    (\A s \in Slots : g[s].cls = "dead") =>
        \A l \in Locks : released[<<"spin", l>>] = acquired[<<"spin", l>>]
====
